---- MODULE Spec2Model ----
(***************************************************************************)
(* Plutus FX dashboard: the latest-rates poll stream of FxDashboard        *)
(* (loadLatest, its triggers and its auto-refresh timer), the date window  *)
(* resolver computeRangeDates of lib/fx, the timeseries API route, the     *)
(* normalisation of provider responses (fetchTimeSeries, fetchLatestRates),*)
(* the geometry of TimeSeriesChart (xFor, yFor, pathD, hoverFromEvent),    *)
(* the watchlist helpers of lib/watchlist, the series loads of             *)
(* CurrencyCard and the latest API route.                                  *)
(***************************************************************************)
EXTENDS Integers, Sequences, FiniteSets, TLC

VARIABLES
    \* ---- FxDashboard component state (src/components/FxDashboard.tsx) ----
    mounted,        \* the mount effect has run
    watchlist,      \* useState watchlist: sequence of currency codes
    refreshSeconds, \* useState refreshSeconds
    autoRefresh,    \* useState autoRefresh
    latest,         \* useState latest: the snapshot, NoSnapshot for null
    isLoading,      \* useState isLoading
    errorMessage,   \* useState errorMessage: Null or a message
    abortRef,       \* abortRef.current: index of a fetch, 0 for null
    fetches,        \* every loadLatest call issued: its request and position
    timerArmed,     \* a window.setInterval is registered
    timerElapsed,   \* seconds since the interval was (re)started or last fired
    \* ---- computeRangeDates (lib/fx) ----
    rRange,         \* the range token given
    rNow,           \* the instant now, in hours since 1970-01-01T00:00Z
    rOffset,        \* the local system timezone, hours east of UTC
    rResult,        \* <<from, to>> once computed, <<>> before
    \* ---- GET /api/fx/timeseries (app/api/fx/timeseries/route.ts) ----
    qSymbol,        \* the symbol query parameter of the request
    qRange,         \* the range query parameter of the request
    routePc,        \* "start", "upstream" (awaiting fetchTimeSeries), "done"
    upstream,       \* the request made to the provider, NoRequest before
    response,       \* the response returned, NoResponse before
    \* ---- fetchTimeSeries, fetchLatestRates (lib/fx) ----
    pStatus,        \* the HTTP status of the provider's response
    pBody,          \* the members of "rates" in its JSON text, in order
    sOut,           \* what fetchTimeSeries returned or threw, NotFetched before
    lOut,           \* what fetchLatestRates returned or threw, NotFetched before
    \* ---- TimeSeriesChart geometry (components/TimeSeriesChart) ----
    cN,             \* points.length
    cDims,          \* useState dims: the logical viewport {w, h}
    cRect,          \* svg.getBoundingClientRect(): the rendered box
    cEvent,         \* the mouse event: clientX, clientY
    cXs,            \* xFor of every index once plotted, <<>> before
    cHover,         \* useState hover: NoHover for null
    \* ---- the poll stream against a provider of a given latency ----
    age,            \* seconds since the call held by abortRef was issued
    latency,        \* seconds the provider takes to answer one request
    \* ---- lib/watchlist ----
    wItems,         \* the list held by setWatchlist
    wPrev,          \* the list the last call was given
    wCall,          \* the last call: add or remove, and its code as typed
    \* ---- TimeSeriesChart scale (components/TimeSeriesChart) ----
    gPoints,        \* points: the values v, in order
    gDims,          \* useState dims
    gRender,        \* what the render produced, NotRendered before
    \* ---- CurrencyCard (components/CurrencyCard.tsx) ----
    kExpanded,      \* useState expanded
    kRange,         \* useState range
    kSeries,        \* useState series
    kFullscreen,    \* useState isFullscreen
    kLoads,         \* loadSeries calls that have not returned
    kHoverInline,   \* useState hover of the inline chart, NoChartHover for null
    kHoverFull,     \* useState hover of the fullscreen chart
    \* ---- GET /api/fx/latest (app/api/fx/latest/route.ts) ----
    uSymbols,       \* searchParams.get("symbols")
    latestPc,       \* "none", "start", "upstream", "done"
    uUpstream,      \* the symbols fetchLatestRates was called with
    uResponse       \* the NextResponse

dashVars == <<mounted, watchlist, refreshSeconds, autoRefresh, latest, isLoading,
              errorMessage, abortRef, fetches, timerArmed, timerElapsed>>
rangeVars == <<rRange, rNow, rOffset, rResult>>
routeVars == <<qSymbol, qRange, routePc, upstream, response>>
fxVars == <<pStatus, pBody, sOut, lOut>>
chartVars == <<cN, cDims, cRect, cEvent, cXs, cHover>>
slowVars == <<age, latency>>
listVars == <<wItems, wPrev, wCall>>
scaleVars == <<gPoints, gDims, gRender>>
cardVars == <<kExpanded, kRange, kSeries, kFullscreen, kLoads, kHoverInline, kHoverFull>>
latestRouteVars == <<uSymbols, latestPc, uUpstream, uResponse>>
laterVars == <<slowVars, listVars, scaleVars, cardVars, latestRouteVars>>
vars == <<mounted, watchlist, refreshSeconds, autoRefresh, latest, isLoading,
          errorMessage, abortRef, fetches, timerArmed, timerElapsed,
          rRange, rNow, rOffset, rResult,
          qSymbol, qRange, routePc, upstream, response,
          pStatus, pBody, sOut, lOut,
          cN, cDims, cRect, cEvent, cXs, cHover,
          laterVars>>

\* what the dashboard's actions, and what a computeRangeDates call, leave alone
otherThanDash == <<rangeVars, routeVars, fxVars, chartVars, laterVars>>
otherThanRange == <<dashVars, routeVars, fxVars, chartVars, laterVars>>
otherThanRoute == <<dashVars, rangeVars, fxVars, chartVars, laterVars>>
otherThanFx == <<dashVars, rangeVars, routeVars, chartVars, laterVars>>
otherThanChart == <<dashVars, rangeVars, routeVars, fxVars, laterVars>>
otherThanSlow == <<rangeVars, routeVars, fxVars, chartVars,
                   listVars, scaleVars, cardVars, latestRouteVars>>
otherThanList == <<dashVars, rangeVars, routeVars, fxVars, chartVars,
                   slowVars, scaleVars, cardVars, latestRouteVars>>
otherThanScale == <<dashVars, rangeVars, routeVars, fxVars, chartVars,
                    slowVars, listVars, cardVars, latestRouteVars>>
otherThanCard == <<dashVars, rangeVars, fxVars, chartVars,
                   slowVars, listVars, scaleVars, latestRouteVars>>
otherThanLatestRoute == <<dashVars, rangeVars, routeVars, fxVars, chartVars,
                          slowVars, listVars, scaleVars, cardVars>>

-----------------------------------------------------------------------------
(* Bounds of the model *)

\* loadLatest calls started in one behaviour
MaxFetches == 3

\* cancelled loadLatest calls whose rejection has not been delivered yet
MaxPending == 1

\* currency codes the user can track
\* the codes "USD" and "EUR", as UTF-16 code units
Codes == {<<85, 83, 68>>, <<69, 85, 82>>}

-----------------------------------------------------------------------------
(* Program constants *)

DEFAULT_REFRESH_SECONDS == 30
MIN_REFRESH_SECONDS == 15
PRESET_REFRESH_SECONDS == {15, 30, 60}

\* time advances in steps of the smallest interval the timer can have
TimeStep == MIN_REFRESH_SECONDS

Null == <<>>
NoSnapshot == [fetch |-> 0, symbols |-> <<>>]

\* HTTP statuses /api/fx/latest answers with: 200, or the 500 of its catch
\* block, whose body is {error: message}
OkStatus == {200}
ErrorStatus == {500}

\* res.text() of a failure response that was read to its end
BodyText(status) == "upstream error"
\* res.statusText
StatusText(status) == "Internal Server Error"

\* `Failed to load latest rates (${res.status}): ${text || res.statusText}`
FailureMessage(status, text) ==
    <<"Failed to load latest rates", status, IF text # "" THEN text ELSE StatusText(status)>>

\* err.message of the TypeError fetch rejects with on a network failure, and
\* of the SyntaxError res.json() rejects with on a malformed body
NetworkMessage == <<"Failed to fetch">>
ParseMessage == <<"Unexpected token">>

\* symbolsParam: the codes joined by ","; empty exactly when the list is
SymbolsParam(wl) == wl

\* positions of a loadLatest call: awaiting fetch(), awaiting res.text() of a
\* non-ok response, awaiting res.json(); returned after setLatest ("ok"), through
\* setErrorMessage ("failed"), or through the AbortError return ("cancelled")
InFlight == {"fetch", "text", "json"}

\* the LatestRates body a successful call f receives
Snapshot(f) == [fetch |-> f, symbols |-> fetches[f].symbols]

\* status shown to WatchlistControls
Status ==
    IF isLoading /\ latest = NoSnapshot THEN "loading"
    ELSE IF errorMessage # Null /\ latest = NoSnapshot THEN "error"
    ELSE IF latest # NoSnapshot THEN "loaded"
    ELSE "idle"

\* the header badge
Badge ==
    IF errorMessage # Null THEN "DEGRADED"
    ELSE IF isLoading THEN "SYNCING"
    ELSE "LIVE"

-----------------------------------------------------------------------------
(* loadLatest *)

\* calls awaiting a response whose signal is not aborted / is aborted
Live == {f \in DOMAIN fetches : fetches[f].pc \in InFlight /\ ~fetches[f].aborted}
Pending == {f \in DOMAIN fetches : fetches[f].pc \in InFlight /\ fetches[f].aborted}

\* what is left of a call that has returned: how it ended (its request,
\* response and signal are no longer read by anything)
Returned(how) == [symbols |-> <<>>, aborted |-> FALSE, pc |-> how, status |-> 0]

\* faulty variant: loadLatest without the abort of the call in flight
AbortCurrentMissing == fetches

\* abortRef.current?.abort(): aborting the controller of a call that has
\* returned has no effect
AbortCurrent ==
    IF abortRef = 0 \/ fetches[abortRef].pc \notin InFlight THEN fetches
    ELSE [fetches EXCEPT ![abortRef].aborted = TRUE]

\* faulty variant: loadLatest that returns while a call is in flight
LoadLatestSkipsWhenBusy(symbolsParam) ==
    IF symbolsParam = <<>> \/ Live # {}
    THEN UNCHANGED <<fetches, abortRef, isLoading, errorMessage, latest>>
    ELSE /\ fetches' = Append(fetches,
                [symbols |-> symbolsParam, aborted |-> FALSE, pc |-> "fetch", status |-> 0])
         /\ abortRef' = Len(fetches) + 1
         /\ isLoading' = TRUE
         /\ errorMessage' = Null
         /\ UNCHANGED latest

\* faulty variant: loadLatest without the return on an empty symbolsParam
LoadLatestWithoutGuard(symbolsParam) ==
    /\ fetches' = Append(AbortCurrent,
           [symbols |-> symbolsParam, aborted |-> FALSE, pc |-> "fetch", status |-> 0])
    /\ abortRef' = Len(fetches) + 1
    /\ isLoading' = TRUE
    /\ errorMessage' = Null
    /\ UNCHANGED latest

\* loadLatest up to its first await, with the symbolsParam of the render
\* that created it
LoadLatest(symbolsParam) ==
    IF symbolsParam = <<>>
    THEN UNCHANGED <<fetches, abortRef, isLoading, errorMessage, latest>>
    ELSE /\ fetches' = Append(AbortCurrent,
                [symbols |-> symbolsParam, aborted |-> FALSE, pc |-> "fetch", status |-> 0])
         /\ abortRef' = Len(fetches) + 1
         /\ isLoading' = TRUE
         /\ errorMessage' = Null
         /\ UNCHANGED latest

\* faulty variant: a catch block that drops the snapshot
CatchErrorDropsSnapshot(message) ==
    /\ errorMessage' = message
    /\ latest' = NoSnapshot

\* the catch block for an error that is not an AbortError
CatchError(message) ==
    /\ errorMessage' = message
    /\ UNCHANGED latest

\* the finally block
Finally == isLoading' = FALSE

\* the bounds on the calls of one behaviour: a call that does start a
\* request is within MaxFetches and leaves at most MaxPending cancelled
\* calls unsettled
CanStart(symbolsParam) ==
    \/ symbolsParam = <<>>
    \/ /\ Len(fetches) < MaxFetches
       /\ Cardinality(Pending \cup (Live \cap {abortRef})) <= MaxPending

-----------------------------------------------------------------------------
(* Effects *)

\* faulty variant: an effect that keeps the running interval's cadence
AutoRefreshEffectKeepsCadence(auto, wl) ==
    /\ timerArmed' = (auto /\ Len(wl) # 0)
    /\ timerElapsed' = IF timerArmed THEN timerElapsed ELSE 0

\* faulty variant: an effect without the clearInterval cleanup
AutoRefreshEffectNoCleanup(auto, wl) ==
    /\ timerArmed' = (timerArmed \/ (auto /\ Len(wl) # 0))
    /\ timerElapsed' = 0

\* the auto refresh effect, re-run when autoRefresh, refreshSeconds or
\* symbolsParam changed: clearInterval of the old timer, then setInterval
AutoRefreshEffect(auto, wl) ==
    /\ timerArmed' = (auto /\ Len(wl) # 0)
    /\ timerElapsed' = 0

IntervalSeconds == IF refreshSeconds > MIN_REFRESH_SECONDS THEN refreshSeconds ELSE MIN_REFRESH_SECONDS

\* the "load once when symbols change" effect
SymbolsEffect(wl) ==
    IF Len(wl) = 0
    THEN UNCHANGED <<fetches, abortRef, isLoading, errorMessage, latest>>
    ELSE LoadLatest(SymbolsParam(wl))

\* String.prototype.trim and toUpperCase on code units
IsWhiteSpace(c) == c \in {9, 10, 13, 32}
RECURSIVE TrimStart(_)
TrimStart(s) ==
    IF s # <<>> /\ IsWhiteSpace(Head(s)) THEN TrimStart(Tail(s)) ELSE s
RECURSIVE TrimEnd(_)
TrimEnd(s) ==
    IF s # <<>> /\ IsWhiteSpace(s[Len(s)])
    THEN TrimEnd(SubSeq(s, 1, Len(s) - 1)) ELSE s
Trim(s) == TrimEnd(TrimStart(s))
UpperCaseUnits(s) ==
    [i \in 1..Len(s) |-> IF s[i] \in 97..122 THEN s[i] - 32 ELSE s[i]]

\* faulty variant: addToWatchlist that keeps the code's letter case
addToWatchlistAsTyped(items, code) ==
    IF \E i \in 1..Len(items) : items[i] = code THEN items ELSE Append(items, code)

\* addToWatchlist: the list itself when the upper-cased code is listed
addToWatchlist(items, code) ==
    LET upper == UpperCaseUnits(code)
    IN  IF \E i \in 1..Len(items) : items[i] = upper THEN items ELSE Append(items, upper)

\* removeFromWatchlist: items.filter
removeFromWatchlist(items, code) ==
    LET upper == UpperCaseUnits(code)
    IN  SelectSeq(items, LAMBDA c : c # upper)

\* what readWatchlist can return: a non-empty list
StoredWatchlists ==
    {<<c>> : c \in Codes} \cup {w \in Codes \X Codes : w[1] # w[2]}

-----------------------------------------------------------------------------
(* Actions *)

\* the mount effect setWatchlist(readWatchlist()) and the effects of the
\* render it causes
Mount ==
    /\ ~mounted
    /\ mounted' = TRUE
    /\ \E wl \in StoredWatchlists :
         /\ watchlist' = wl
         /\ SymbolsEffect(wl)
         /\ AutoRefreshEffect(autoRefresh, wl)
    /\ UNCHANGED <<refreshSeconds, autoRefresh>>
    /\ UNCHANGED otherThanDash

\* handleAdd / acceptSuggestion: validate rejects a code already listed
OnAdd(code) ==
    /\ mounted
    /\ ~ \E i \in 1..Len(watchlist) : watchlist[i] = code
    /\ CanStart(SymbolsParam(addToWatchlist(watchlist, code)))
    /\ watchlist' = addToWatchlist(watchlist, code)
    /\ SymbolsEffect(watchlist')
    /\ AutoRefreshEffect(autoRefresh, watchlist')
    /\ UNCHANGED <<mounted, refreshSeconds, autoRefresh>>
    /\ UNCHANGED otherThanDash

\* the remove button of a listed code
OnRemove(code) ==
    /\ mounted
    /\ \E i \in 1..Len(watchlist) : watchlist[i] = code
    /\ CanStart(SymbolsParam(removeFromWatchlist(watchlist, code)))
    /\ watchlist' = removeFromWatchlist(watchlist, code)
    /\ SymbolsEffect(watchlist')
    /\ AutoRefreshEffect(autoRefresh, watchlist')
    /\ UNCHANGED <<mounted, refreshSeconds, autoRefresh>>
    /\ UNCHANGED otherThanDash

\* the Refresh button, disabled while status is "loading"
ManualRefresh ==
    /\ mounted
    /\ Status # "loading"
    /\ CanStart(SymbolsParam(watchlist))
    /\ LoadLatest(SymbolsParam(watchlist))
    /\ UNCHANGED <<mounted, watchlist, refreshSeconds, autoRefresh, timerArmed, timerElapsed>>
    /\ UNCHANGED otherThanDash

\* the auto refresh checkbox
SetAutoRefresh ==
    /\ mounted
    /\ autoRefresh' = ~autoRefresh
    /\ AutoRefreshEffect(autoRefresh', watchlist)
    /\ UNCHANGED <<mounted, watchlist, refreshSeconds, latest, isLoading, errorMessage,
                   abortRef, fetches>>
    /\ UNCHANGED otherThanDash

\* the interval select, disabled while auto refresh is off
SetRefreshSeconds(n) ==
    /\ mounted
    /\ autoRefresh
    /\ n # refreshSeconds
    /\ refreshSeconds' = n
    /\ AutoRefreshEffect(autoRefresh, watchlist)
    /\ UNCHANGED <<mounted, watchlist, autoRefresh, latest, isLoading, errorMessage,
                   abortRef, fetches>>
    /\ UNCHANGED otherThanDash

\* time passes while the interval has not elapsed
TimePasses ==
    /\ timerArmed
    /\ timerElapsed + TimeStep <= IntervalSeconds
    /\ timerElapsed' = timerElapsed + TimeStep
    /\ UNCHANGED <<mounted, watchlist, refreshSeconds, autoRefresh, latest, isLoading,
                   errorMessage, abortRef, fetches, timerArmed>>
    /\ UNCHANGED otherThanDash

\* the setInterval callback
TimerFire ==
    /\ timerArmed
    /\ timerElapsed >= IntervalSeconds
    /\ CanStart(SymbolsParam(watchlist))
    /\ LoadLatest(SymbolsParam(watchlist))
    /\ timerElapsed' = 0
    /\ UNCHANGED <<mounted, watchlist, refreshSeconds, autoRefresh, timerArmed>>
    /\ UNCHANGED otherThanDash

frame == <<mounted, watchlist, refreshSeconds, autoRefresh, abortRef, timerArmed, timerElapsed>>

\* fetch() resolves with a response
Respond(f, status) ==
    /\ fetches[f].pc = "fetch"
    /\ ~fetches[f].aborted
    /\ fetches' = [fetches EXCEPT ![f].status = status,
                                  ![f].pc = IF status \in OkStatus THEN "json" ELSE "text"]
    /\ UNCHANGED <<latest, isLoading, errorMessage>>
    /\ UNCHANGED frame
    /\ UNCHANGED otherThanDash

\* fetch() rejects with a network error
NetworkFail(f) ==
    /\ fetches[f].pc = "fetch"
    /\ ~fetches[f].aborted
    /\ fetches' = [fetches EXCEPT ![f] = Returned("failed")]
    /\ CatchError(NetworkMessage)
    /\ Finally
    /\ UNCHANGED frame
    /\ UNCHANGED otherThanDash

\* res.json() resolves: setLatest(data)
JsonDone(f) ==
    /\ fetches[f].pc = "json"
    /\ ~fetches[f].aborted
    /\ fetches' = [fetches EXCEPT ![f] = Returned("ok")]
    /\ latest' = Snapshot(f)
    /\ UNCHANGED errorMessage
    /\ Finally
    /\ UNCHANGED frame
    /\ UNCHANGED otherThanDash

\* res.json() rejects on a malformed body
JsonFail(f) ==
    /\ fetches[f].pc = "json"
    /\ ~fetches[f].aborted
    /\ fetches' = [fetches EXCEPT ![f] = Returned("failed")]
    /\ CatchError(ParseMessage)
    /\ Finally
    /\ UNCHANGED frame
    /\ UNCHANGED otherThanDash

\* res.text() of a non-ok response settles; the Error is thrown and caught
TextDone(f) ==
    /\ fetches[f].pc = "text"
    /\ ~fetches[f].aborted
    /\ fetches' = [fetches EXCEPT ![f] = Returned("failed")]
    /\ CatchError(FailureMessage(fetches[f].status, BodyText(fetches[f].status)))
    /\ Finally
    /\ UNCHANGED frame
    /\ UNCHANGED otherThanDash

\* the continuation of a call whose signal was aborted while it awaited:
\* fetch() and res.json() reject with the AbortError, which the catch block
\* returns on; the rejection of res.text() is swallowed by .catch(() => ""),
\* so the Error is thrown with the status text. The finally block runs in
\* every case.
AbortSettle(f) ==
    /\ fetches[f].pc \in InFlight
    /\ fetches[f].aborted
    /\ fetches' = [fetches EXCEPT ![f] = Returned("cancelled")]
    /\ IF fetches[f].pc = "text"
       THEN CatchError(FailureMessage(fetches[f].status, ""))
       ELSE UNCHANGED <<errorMessage, latest>>
    /\ Finally
    /\ UNCHANGED frame
    /\ UNCHANGED otherThanDash

-----------------------------------------------------------------------------

\* FxDashboard after construction (the first render)
DashInit ==
    /\ mounted = FALSE
    /\ watchlist = <<>>
    /\ refreshSeconds = DEFAULT_REFRESH_SECONDS
    /\ autoRefresh = TRUE
    /\ latest = NoSnapshot
    /\ isLoading = FALSE
    /\ errorMessage = Null
    /\ abortRef = 0
    /\ fetches = <<>>
    /\ timerArmed = FALSE
    /\ timerElapsed = 0

NoResult == [from |-> <<>>, to |-> <<>>]

\* no computeRangeDates call is modelled
RangeIdle ==
    /\ rRange = "1M"
    /\ rNow = 0
    /\ rOffset = 0
    /\ rResult = NoResult

\* a query parameter: absent (searchParams.get gives null) or its text
NoParam == [given |-> FALSE, text |-> <<>>]
NoRequest == [symbol |-> <<>>, range |-> "", from |-> <<>>, to |-> <<>>]
NoResponse == [status |-> 0, error |-> "", data |-> NoRequest]

\* no request to the timeseries route is modelled
RouteIdle ==
    /\ qSymbol = NoParam
    /\ qRange = NoParam
    /\ routePc = "start"
    /\ upstream = NoRequest
    /\ response = NoResponse

NotFetched == [state |-> "none", message |-> "", entries |-> <<>>]

\* no provider response is modelled
FxIdle ==
    /\ pStatus = 200
    /\ pBody = <<>>
    /\ sOut = NotFetched
    /\ lOut = NotFetched

NoHover == [idx |-> -1, vx |-> <<0, 1>>, vy |-> <<0, 1>>, px |-> 0, py |-> 0]

\* no chart is modelled
ChartIdle ==
    /\ cN = 0
    /\ cDims = [w |-> 640, h |-> 220]
    /\ cRect = [left |-> 0, top |-> 0, width |-> 640, height |-> 220]
    /\ cEvent = [clientX |-> 0, clientY |-> 0]
    /\ cXs = <<>>
    /\ cHover = NoHover

\* no provider latency is modelled
SlowIdle ==
    /\ age = 0
    /\ latency = 0

NoCall == [op |-> "none", code |-> <<>>]

\* no watchlist call is modelled
ListIdle ==
    /\ wItems = <<>>
    /\ wPrev = <<>>
    /\ wCall = NoCall

NotRendered ==
    [rendered |-> FALSE, insufficient |-> FALSE, pathD |-> <<>>, area |-> <<>>,
     markers |-> <<>>, axisMin |-> <<0, 1>>, axisMax |-> <<0, 1>>, divisors |-> {}]

\* no chart scale is modelled
ScaleIdle ==
    /\ gPoints = <<>>
    /\ gDims = [w |-> 640, h |-> 220]
    /\ gRender = NotRendered

NoData == [range |-> "", n |-> 0]
NoChartHover == [idx |-> -1, of |-> NoData]

\* CurrencyCard after construction
CardInit ==
    /\ kExpanded = FALSE
    /\ kRange = "1M"
    /\ kSeries = [status |-> "idle", data |-> NoData, message |-> <<>>]
    /\ kFullscreen = FALSE
    /\ kLoads = <<>>
    /\ kHoverInline = NoChartHover
    /\ kHoverFull = NoChartHover

NoLatestResponse == [status |-> 0, error |-> "", symbols |-> <<>>]

\* no request to the latest route is modelled
LatestRouteIdle ==
    /\ uSymbols = NoParam
    /\ latestPc = "none"
    /\ uUpstream = <<>>
    /\ uResponse = NoLatestResponse

LaterIdle == SlowIdle /\ ListIdle /\ ScaleIdle /\ CardInit /\ LatestRouteIdle

Init == DashInit /\ RangeIdle /\ RouteIdle /\ FxIdle /\ ChartIdle /\ LaterIdle

Next ==
    \/ Mount
    \/ \E code \in Codes : OnAdd(code)
    \/ \E code \in Codes : OnRemove(code)
    \/ ManualRefresh
    \/ SetAutoRefresh
    \/ \E n \in PRESET_REFRESH_SECONDS : SetRefreshSeconds(n)
    \/ TimePasses
    \/ TimerFire
    \/ \E f \in DOMAIN fetches : \E status \in OkStatus \cup ErrorStatus : Respond(f, status)
    \/ \E f \in DOMAIN fetches : NetworkFail(f)
    \/ \E f \in DOMAIN fetches : JsonDone(f)
    \/ \E f \in DOMAIN fetches : JsonFail(f)
    \/ \E f \in DOMAIN fetches : TextDone(f)
    \/ \E f \in DOMAIN fetches : AbortSettle(f)

Spec == Init /\ [][Next]_vars

-----------------------------------------------------------------------------
(* The poll stream: claims *)

\* C1: a call superseded by a later one never writes the snapshot: every
\* change of latest is made by the most recently started call, once its
\* body has arrived, and stores that call's own result.
C1_SupersededNeverWritesSnapshot ==
    [][latest' # latest =>
         \E f \in DOMAIN fetches :
            /\ f = Len(fetches)
            /\ fetches[f].pc = "json"
            /\ ~fetches[f].aborted
            /\ latest' = Snapshot(f)]_vars

\* a superseded call holds a success response whose body is still being
\* read, and the call that superseded it has already stored its result
C1_Witness ==
    \E f \in DOMAIN fetches :
        /\ f < Len(fetches)
        /\ fetches[f].pc = "json" /\ fetches[f].aborted
        /\ fetches[f + 1].pc = "ok"
        /\ latest.fetch = f + 1

\* C2: the remaining execution of a cancelled call changes none of
\* isLoading, errorMessage, latest.
C2_CancelledChangesNothing ==
    [][\A f \in DOMAIN fetches :
          AbortSettle(f) => UNCHANGED <<isLoading, errorMessage, latest>>]_vars

\* the reason of the failure a call f is about to report
FailureReason(f) ==
    CASE fetches[f].pc = "fetch" -> NetworkMessage
      [] fetches[f].pc = "json" -> ParseMessage
      [] fetches[f].pc = "text" -> FailureMessage(fetches[f].status, BodyText(fetches[f].status))

\* C3: a call that fails, not cancelled, while a snapshot exists leaves the
\* snapshot unchanged, stores its reason as the error message and leaves
\* the stream Degraded with the snapshot still shown.
C3_FailureKeepsSnapshot ==
    [][\A f \in DOMAIN fetches :
          (NetworkFail(f) \/ JsonFail(f) \/ TextDone(f)) /\ latest # NoSnapshot =>
              /\ latest' = latest
              /\ errorMessage' = FailureReason(f)
              /\ Badge' = "DEGRADED"
              /\ Status' = "loaded"]_vars

\* two failures in a row after a success: the snapshot is the success's
C3_Witness ==
    \E f \in DOMAIN fetches :
        /\ f + 2 <= Len(fetches)
        /\ fetches[f].pc = "ok" /\ latest.fetch = f
        /\ fetches[f + 1].pc = "failed"
        /\ fetches[f + 2].pc = "failed"
        /\ errorMessage # Null

\* the steps that call loadLatest
Trigger ==
    \/ Mount
    \/ \E code \in Codes : OnAdd(code) \/ OnRemove(code)
    \/ ManualRefresh
    \/ TimerFire

\* C4: at most one call that is not cancelled is in flight, and a trigger
\* with a non-empty tracked set starts its call in the same step, leaving
\* it the only one not cancelled.
C4_SingleFlight ==
    [][/\ Cardinality(Live') <= 1
       /\ (Trigger /\ watchlist' # <<>> =>
              /\ Len(fetches') = Len(fetches) + 1
              /\ Live' = {Len(fetches')}
              /\ Live \subseteq Pending')]_vars

\* a trigger arrived during a call: that call is cancelled and unsettled,
\* the trigger's own call is in flight
C4_Witness ==
    /\ Pending # {}
    /\ Live = {Len(fetches)}

\* C5: a call that succeeds, not cancelled, makes the snapshot its result,
\* leaves no error message and the stream Loaded.
C5_SuccessClearsError ==
    [][\A f \in DOMAIN fetches :
          JsonDone(f) =>
              /\ latest' = Snapshot(f)
              /\ errorMessage' = Null
              /\ Status' = "loaded"
              /\ Badge' # "DEGRADED"]_vars

\* C6: while the tracked set is empty (after the mount) the stream is Idle.
C6_EmptySetIsIdle ==
    mounted /\ watchlist = <<>> => Status = "idle"

\* C7: a change of the tracked set to a non-empty set starts a call for
\* the new set in the same step and restarts the auto-refresh interval.
C7_SymbolChangeFetchesAndRestartsTimer ==
    [][watchlist' # watchlist /\ watchlist' # <<>> =>
          /\ Len(fetches') = Len(fetches) + 1
          /\ fetches'[Len(fetches')] =
                [symbols |-> SymbolsParam(watchlist'), aborted |-> FALSE,
                 pc |-> "fetch", status |-> 0]
          /\ abortRef' = Len(fetches')
          /\ (autoRefresh => timerArmed' /\ timerElapsed' = 0)]_vars

\* after part of an interval a code was added: the call for the old set is
\* cancelled, the one for the new set in flight, the interval restarted
C7_Witness ==
    /\ Len(fetches) >= 2
    /\ Len(watchlist) = 2
    /\ fetches[Len(fetches)].pc = "fetch"
    /\ fetches[Len(fetches)].symbols = SymbolsParam(watchlist)
    /\ \E f \in Pending : fetches[f].symbols # SymbolsParam(watchlist)
    /\ timerArmed /\ timerElapsed = 0

\* C8: switching auto-refresh off leaves the calls and what they write
\* untouched and no interval registered, and while it is off no step is a
\* timer tick.
C8_DisableStopsTicksOnly ==
    [][/\ (autoRefresh /\ ~autoRefresh' =>
              /\ UNCHANGED <<fetches, abortRef, latest, isLoading, errorMessage>>
              /\ ~timerArmed')
       /\ (~autoRefresh => ~TimerFire)
       /\ (~autoRefresh' => ~timerArmed')]_vars

\* auto-refresh was switched off during the mount's call, which is still
\* in flight, not cancelled, with its response arrived
C8_Witness ==
    /\ ~autoRefresh /\ ~timerArmed
    /\ Len(fetches) = 1
    /\ Live = {1}
    /\ fetches[1].pc = "json"

-----------------------------------------------------------------------------
(* computeRangeDates *)

\* days of the instants given as now
NumDays == 120

RANGES == {"1D", "1W", "1M", "3M", "6M", "1Y"}

\* tokens given to computeRangeDates: the six, one in lower case, one unknown
RangeInputs == RANGES \cup {"1y", "2W"}

\* range.toUpperCase()
ToUpperCase(range) == IF range = "1y" THEN "1Y" ELSE range

\* Asia/Singapore is UTC+8 all year
SGT_OFFSET_HOURS == 8

\* local system timezones (hours east of UTC, no daylight saving): UTC as on
\* the edge runtime, Singapore, US Pacific standard time
LocalOffsets == {0, 8, -8}

\* the proleptic Gregorian calendar of Date: day number since 1970-01-01 of
\* a civil date, and back
DaysFromCivil(y, m, d) ==
    LET yy == IF m <= 2 THEN y - 1 ELSE y
        era == yy \div 400
        yoe == yy - era * 400
        mp == IF m > 2 THEN m - 3 ELSE m + 9
        doy == (153 * mp + 2) \div 5 + d - 1
        doe == yoe * 365 + yoe \div 4 - yoe \div 100 + doy
    IN  era * 146097 + doe - 719468

CivilFromDays(n) ==
    LET z == n + 719468
        era == z \div 146097
        doe == z - era * 146097
        yoe == (doe - doe \div 1460 + doe \div 36524 - doe \div 146096) \div 365
        doy == doe - (365 * yoe + yoe \div 4 - yoe \div 100)
        mp == (5 * doy + 2) \div 153
        d == doy - (153 * mp + 2) \div 5 + 1
        m == IF mp < 10 THEN mp + 3 ELSE mp - 9
        y == yoe + era * 400 + (IF m <= 2 THEN 1 ELSE 0)
    IN  <<y, m, d>>

\* Date's MakeDay: the day number of day `date` of month index `month`
\* (0-based) of `year`; a month outside 0..11 carries into the year and a
\* day outside the month carries into the neighbouring months
MakeDay(year, month, date) ==
    DaysFromCivil(year + month \div 12, (month % 12) + 1, 1) + date - 1

\* the local calendar fields of an instant t (hours since the epoch) in a
\* timezone off hours east of UTC
LocalFields(t, off) ==
    LET c == CivilFromDays((t + off) \div 24)
    IN  [year |-> c[1], month |-> c[2] - 1, date |-> c[3], hour |-> (t + off) % 24]

\* the instant with the given local day number and local hour
FromLocal(day, hour, off) == day * 24 + hour - off

\* d.setDate(d.getDate() - n)
SetDateBack(t, off, n) ==
    LET l == LocalFields(t, off)
    IN  FromLocal(MakeDay(l.year, l.month, l.date - n), l.hour, off)

\* d.setMonth(d.getMonth() - n)
SetMonthBack(t, off, n) ==
    LET l == LocalFields(t, off)
    IN  FromLocal(MakeDay(l.year, l.month - n, l.date), l.hour, off)

\* d.setFullYear(d.getFullYear() - n)
SetFullYearBack(t, off, n) ==
    LET l == LocalFields(t, off)
    IN  FromLocal(MakeDay(l.year - n, l.month, l.date), l.hour, off)

\* the characters of a decimal number of w digits, as code units
Digits(n, w) == [i \in 1..w |-> 48 + ((n \div (10 ^ (w - i))) % 10)]

\* `${y}-${m}-${d}` of the parts of a civil date (45 is "-")
IsoDate(c) == Digits(c[1], 4) \o <<45>> \o Digits(c[2], 2) \o <<45>> \o Digits(c[3], 2)

\* faulty variant: the date formatted in UTC instead of Asia/Singapore
toISODateUTC(t) == IsoDate(CivilFromDays(t \div 24))

\* toISODateSGT: the calendar date of the instant in Asia/Singapore
toISODateSGT(t) == IsoDate(CivilFromDays((t + SGT_OFFSET_HOURS) \div 24))

\* computeRangeDates(range, now) where the local timezone is off
computeRangeDates(range, now, off) ==
    LET normalized == ToUpperCase(range)
        d == CASE normalized = "1D" -> SetDateBack(now, off, 1)
               [] normalized = "1W" -> SetDateBack(now, off, 7)
               [] normalized = "1M" -> SetMonthBack(now, off, 1)
               [] normalized = "3M" -> SetMonthBack(now, off, 3)
               [] normalized = "6M" -> SetMonthBack(now, off, 6)
               [] normalized = "1Y" -> SetFullYearBack(now, off, 1)
               [] OTHER -> SetMonthBack(now, off, 1)
    IN  [from |-> toISODateSGT(d), to |-> toISODateSGT(now)]

\* the instants given as now: three hours of each day of a window that
\* holds a year's end and a leap day
FirstDay == DaysFromCivil(2023, 12, 20)
HoursOfDay == {3, 12, 20}
Instants == {(FirstDay + k) * 24 + h : k \in 0..(NumDays - 1), h \in HoursOfDay}

InitRange ==
    /\ DashInit
    /\ rRange \in RangeInputs
    /\ rNow \in Instants
    /\ rOffset \in LocalOffsets
    /\ rResult = NoResult
    /\ RouteIdle
    /\ FxIdle
    /\ ChartIdle
    /\ LaterIdle

\* one call of computeRangeDates
Compute ==
    /\ rResult = NoResult
    /\ rResult' = computeRangeDates(rRange, rNow, rOffset)
    /\ UNCHANGED <<rRange, rNow, rOffset>>
    /\ UNCHANGED otherThanRange

NextRange == Compute

SpecRange == InitRange /\ [][NextRange]_vars

\* a < b, a = b as strings: lexicographic order of the code units
StrLess(a, b) ==
    \E i \in 1..Len(a) :
        /\ i <= Len(b)
        /\ a[i] < b[i]
        /\ \A j \in 1..(i - 1) : a[j] = b[j]
StrLE(a, b) == a = b \/ StrLess(a, b)

\* the civil date an ISO date string names
ParseIso(s) ==
    <<(s[1] - 48) * 1000 + (s[2] - 48) * 100 + (s[3] - 48) * 10 + (s[4] - 48),
      (s[6] - 48) * 10 + (s[7] - 48),
      (s[9] - 48) * 10 + (s[10] - 48)>>

\* the instant t lies in the Singapore calendar day the string names
IsSingaporeDateOf(s, t) ==
    LET c == ParseIso(s)
        start == DaysFromCivil(c[1], c[2], c[3]) * 24 - SGT_OFFSET_HOURS
    IN  start <= t /\ t < start + 24

\* C9: for the six tokens and every instant, from <= to as ISO dates and to
\* names the Singapore calendar day that holds now.
C9_FromNotAfterToAndToIsToday ==
    rResult # NoResult /\ ToUpperCase(rRange) \in RANGES =>
        /\ StrLE(rResult.from, rResult.to)
        /\ IsSingaporeDateOf(rResult.to, rNow)

\* a window computed where the local date is a day behind Singapore's
C9_Witness ==
    /\ rResult # NoResult
    /\ rRange = "6M"
    /\ rOffset = 0
    /\ rNow % 24 = 20
    /\ StrLess(rResult.from, rResult.to)

IsLeap(y) == (y % 4 = 0 /\ y % 100 # 0) \/ y % 400 = 0
DaysInMonth(y, m) ==
    IF m = 2 THEN (IF IsLeap(y) THEN 29 ELSE 28)
    ELSE IF m \in {4, 6, 9, 11} THEN 30 ELSE 31

\* the months a token shifts by, 0 for the day tokens
MonthsOf(range) ==
    CASE range = "1M" -> 1 [] range = "3M" -> 3 [] range = "6M" -> 6
      [] range = "1Y" -> 12 [] OTHER -> 0

\* C10: from is to moved back 1 day (1D), 7 days (1W), or to the same
\* day-of-month 1/3/6/12 months earlier when the target month has it.
C10_FromIsShiftedEndDate ==
    rResult # NoResult /\ rRange \in RANGES =>
        LET t == ParseIso(rResult.to)
            f == ParseIso(rResult.from)
            toDay == DaysFromCivil(t[1], t[2], t[3])
            k == MonthsOf(rRange)
            idx == t[1] * 12 + (t[2] - 1) - k
            ty == idx \div 12
            tm == (idx % 12) + 1
        IN  CASE rRange = "1D" -> f = CivilFromDays(toDay - 1)
              [] rRange = "1W" -> f = CivilFromDays(toDay - 7)
              [] OTHER -> (t[3] <= DaysInMonth(ty, tm) => f = <<ty, tm, t[3]>>)

\* the target month of a month-based token: the month of `to` moved back
\* by the token's number of months, as <<year, month>>
TargetMonth(to, range) ==
    LET idx == to[1] * 12 + (to[2] - 1) - MonthsOf(range)
    IN  <<idx \div 12, (idx % 12) + 1>>

\* C11: for 1M, 3M, 6M and 1Y, when the day-of-month of to does not exist
\* in the target month, from is the last day of the target month (never a
\* day of a later month).
C11_FromIsLastDayOfTargetMonth ==
    rResult # NoResult /\ rRange \in {"1M", "3M", "6M", "1Y"} =>
        LET t == ParseIso(rResult.to)
            f == ParseIso(rResult.from)
            tm == TargetMonth(t, rRange)
            last == DaysInMonth(tm[1], tm[2])
        IN  t[3] > last => f = <<tm[1], tm[2], last>>

\* C12: the window depends on the token and the instant only: every local
\* system timezone gives the pair this call returned.
C12_SameWindowInEveryTimezone ==
    rResult # NoResult =>
        \A off \in LocalOffsets : computeRangeDates(rRange, rNow, off) = rResult

-----------------------------------------------------------------------------
(* GET /api/fx/timeseries *)

\* a query parameter given with the text s (a sequence of code units)
Param(s) == [given |-> TRUE, text |-> s]

\* searchParams.get(name) || dflt: null and the empty string are both falsy
GetOr(q, dflt) == IF q.given /\ q.text # <<>> THEN q.text ELSE dflt

\* the code units of the six tokens
TokenText ==
    [r \in RANGES |->
        CASE r = "1D" -> <<49, 68>> [] r = "1W" -> <<49, 87>>
          [] r = "1M" -> <<49, 77>> [] r = "3M" -> <<51, 77>>
          [] r = "6M" -> <<54, 77>> [] r = "1Y" -> <<49, 89>>]

\* range parameters sent: none, empty, "1M", "1y", " 6m ", "2W", " ", "1D"
RangeParams ==
    {NoParam, Param(<<>>), Param(<<49, 77>>), Param(<<49, 121>>),
     Param(<<32, 54, 109, 32>>), Param(<<50, 87>>), Param(<<32>>),
     Param(<<49, 68>>)}

\* symbol parameters sent: none, "jpy", " USD ", "JP"
SymbolParams ==
    {NoParam, Param(<<106, 112, 121>>), Param(<<32, 85, 83, 68, 32>>),
     Param(<<74, 80>>)}

\* the instants of the requests: 20:00Z on 2023-12-20, 2023-12-31, 2024-02-29
RouteInstants == {(FirstDay + k) * 24 + 20 : k \in {0, 11, 71}}

\* the handler up to its call of computeRangeDates: the 400 response it
\* returns, or status 0 with the symbol and range it goes on with
\* faulty variant: an invalid range silently defaults to 1M
ValidateDefaultsSilently(qs, qr) ==
    LET symbolParam == UpperCaseUnits(Trim(GetOr(qs, <<>>)))
        rangeParam == UpperCaseUnits(Trim(GetOr(qr, TokenText["1M"])))
        range == IF \E r \in RANGES : TokenText[r] = rangeParam
                 THEN CHOOSE r \in RANGES : TokenText[r] = rangeParam
                 ELSE "1M"
    IN  IF symbolParam = <<>>
        THEN [status |-> 400, error |-> "Missing required query param: symbol",
              symbol |-> <<>>, range |-> ""]
        ELSE IF Len(symbolParam) < 3 \/ Len(symbolParam) > 5
        THEN [status |-> 400, error |-> "Invalid symbol",
              symbol |-> <<>>, range |-> ""]
        ELSE [status |-> 0, error |-> "", symbol |-> symbolParam, range |-> range]
Validate(qs, qr) ==
    LET symbolParam == UpperCaseUnits(Trim(GetOr(qs, <<>>)))
        rangeParam == UpperCaseUnits(Trim(GetOr(qr, TokenText["1M"])))
        range == IF \E r \in RANGES : TokenText[r] = rangeParam
                 THEN CHOOSE r \in RANGES : TokenText[r] = rangeParam
                 ELSE "1M"
    IN  IF symbolParam = <<>>
        THEN [status |-> 400, error |-> "Missing required query param: symbol",
              symbol |-> <<>>, range |-> ""]
        ELSE IF Len(symbolParam) < 3 \/ Len(symbolParam) > 5
        THEN [status |-> 400, error |-> "Invalid symbol",
              symbol |-> <<>>, range |-> ""]
        ELSE IF (qr.given /\ qr.text # <<>>) /\ rangeParam # TokenText[range]
        THEN [status |-> 400, error |-> "Invalid range",
              symbol |-> <<>>, range |-> ""]
        ELSE [status |-> 0, error |-> "", symbol |-> symbolParam, range |-> range]

\* GET: validation, then computeRangeDates(range) and the provider request
\* of fetchTimeSeries
RouteGET ==
    /\ routePc = "start"
    /\ LET v == Validate(qSymbol, qRange)
       IN  IF v.status = 400
           THEN /\ response' = [status |-> 400, error |-> v.error, data |-> NoRequest]
                /\ routePc' = "done"
                /\ UNCHANGED upstream
           ELSE LET w == computeRangeDates(v.range, rNow, rOffset)
                IN  /\ upstream' = [symbol |-> v.symbol, range |-> v.range,
                                    from |-> w.from, to |-> w.to]
                    /\ routePc' = "upstream"
                    /\ UNCHANGED response
    /\ UNCHANGED <<qSymbol, qRange>>
    /\ UNCHANGED otherThanRoute

\* fetchTimeSeries resolves: the series is returned with status 200
UpstreamOk ==
    /\ routePc = "upstream"
    /\ response' = [status |-> 200, error |-> "", data |-> upstream]
    /\ routePc' = "done"
    /\ UNCHANGED <<qSymbol, qRange, upstream>>
    /\ UNCHANGED otherThanRoute

\* what fetchTimeSeries throws: assertOk's error, fetch's, res.json()'s
UpstreamErrors ==
    {"FX provider error: 500 Internal Server Error", "fetch failed",
     "Unexpected token < in JSON"}

\* fetchTimeSeries throws: the catch block answers 500 with the message
UpstreamFail(message) ==
    /\ routePc = "upstream"
    /\ response' = [status |-> 500, error |-> message, data |-> NoRequest]
    /\ routePc' = "done"
    /\ UNCHANGED <<qSymbol, qRange, upstream>>
    /\ UNCHANGED otherThanRoute

InitRoute ==
    /\ DashInit
    /\ rRange \in RangeInputs
    /\ rNow \in RouteInstants
    /\ rOffset \in LocalOffsets
    /\ rResult = NoResult
    /\ qSymbol \in SymbolParams
    /\ qRange \in RangeParams
    /\ routePc = "start"
    /\ upstream = NoRequest
    /\ response = NoResponse
    /\ FxIdle
    /\ ChartIdle
    /\ LaterIdle

NextRoute ==
    \/ Compute
    \/ RouteGET
    \/ UpstreamOk
    \/ \E message \in UpstreamErrors : UpstreamFail(message)

SpecRoute == InitRoute /\ [][NextRoute]_vars

\* the range parameter after trim and upper-casing is one of the six tokens
RangeInSet(q) == \E r \in RANGES : TokenText[r] = UpperCaseUnits(Trim(q.text))

\* the symbol parameter passes the route's symbol checks
SymbolAccepted(q) ==
    q.given /\ Len(Trim(q.text)) >= 3 /\ Len(Trim(q.text)) <= 5

-----------------------------------------------------------------------------
(* fetchTimeSeries and fetchLatestRates: the provider's response turned into
   a TimeSeries and a LatestRates *)

\* members of "rates" in one response body
MaxEntries == 3

\* a Number: a finite value in tenths, an infinity (x its sign), or NaN
Fin(x) == [k |-> "fin", x |-> x]
PosInf == [k |-> "inf", x |-> 1]
NaN == [k |-> "nan", x |-> 0]

\* Number.isFinite(n) and n > 0
IsFinite(n) == n.k = "fin"
GreaterThanZero(n) == n.k # "nan" /\ n.x > 0

\* the values JSON.parse gives a member, and undefined for a member the
\* lookup does not find
JNumber(n) == [type |-> "number", num |-> n, str |-> ""]
JString(s) == [type |-> "string", num |-> NaN, str |-> s]
JTrue == [type |-> "boolean", num |-> NaN, str |-> "true"]
Undefined == [type |-> "undefined", num |-> NaN, str |-> ""]

\* Number(raw) of a value that is not a number: a numeric string gives its
\* value, the empty string 0, any other string NaN, true 1, undefined NaN
\* faulty variant: only numbers are taken, anything else is NaN
NumberOfNumbersOnly(raw) == IF raw.type = "number" THEN raw.num ELSE NaN
Number(raw) ==
    CASE raw.type = "number" -> raw.num
      [] raw.type = "string" ->
            (CASE raw.str = "7.5" -> Fin(75)
               [] raw.str = "" -> Fin(0)
               [] OTHER -> NaN)
      [] raw.type = "boolean" -> (IF raw.str = "true" THEN Fin(10) ELSE Fin(0))
      [] OTHER -> NaN

\* values the provider may send for a rate: 114.3, 0, -0.5, 1e999 (parsed
\* as Infinity), none, "abc", "7.5", true
RawValues ==
    {JNumber(Fin(1143)), JNumber(Fin(0)), JNumber(Fin(-5)), JNumber(PosInf),
     Undefined, JString("abc"), JString("7.5"), JTrue}

\* date keys of a series response
DateKeys == {IsoDate(<<2024, 1, 1>>), IsoDate(<<2024, 1, 2>>), IsoDate(<<2023, 12, 31>>)}

\* currency keys of a latest response: "USD", "usd", "EUR"
CurrencyKeys == {<<85, 83, 68>>, <<117, 115, 100>>, <<69, 85, 82>>}

\* values of a latest response: 1.3, 0, -0.5, "abc"
LatestValues == {JNumber(Fin(13)), JNumber(Fin(0)), JNumber(Fin(-5)), JString("abc")}

\* the member lists of up to MaxEntries members over keys and values
Bodies(keys, values) ==
    UNION {[1..n -> [key : keys, value : values]] : n \in 0..MaxEntries}

\* Object.entries of the object JSON.parse builds from the members: a key
\* written twice is one property, at the place of its first member and with
\* the value of its last
ObjectEntries(members) ==
    LET firsts == SelectSeq([i \in 1..Len(members) |-> i],
                      LAMBDA i : \A j \in 1..(i - 1) : members[j].key # members[i].key)
        LastOf(key) == CHOOSE i \in 1..Len(members) :
                          /\ members[i].key = key
                          /\ \A j \in (i + 1)..Len(members) : members[j].key # key
    IN  [n \in 1..Len(firsts) |->
            [key |-> members[firsts[n]].key,
             value |-> members[LastOf(members[firsts[n]].key)].value]]

\* .map(([date, rateMap]) => ...): the point of an entry, whose value is
\* what rateMap?.[upperSymbol] finds
PointOf(entry) ==
    [t |-> entry.key,
     v |-> IF entry.value.type = "number" THEN entry.value.num ELSE Number(entry.value)]

\* .filter((p) => Number.isFinite(p.v) && p.v > 0)
\* faulty variant: the finiteness test is missing
KeepPointPositiveOnly(p) == GreaterThanZero(p.v)
KeepPoint(p) == IsFinite(p.v) /\ GreaterThanZero(p.v)

\* .sort((a, b) => (a.t < b.t ? -1 : a.t > b.t ? 1 : 0)): a stable sort,
\* here by insertion
RECURSIVE InsertByDate(_, _)
InsertByDate(p, sorted) ==
    IF sorted = <<>> THEN <<p>>
    ELSE IF StrLess(p.t, Head(sorted).t) THEN <<p>> \o sorted
    ELSE <<Head(sorted)>> \o InsertByDate(p, Tail(sorted))
RECURSIVE SortUpTo(_, _)
SortUpTo(ps, n) ==
    IF n = 0 THEN <<>> ELSE InsertByDate(ps[n], SortUpTo(ps, n - 1))
\* faulty variant: the points are left in entry order
NotSorted(ps) == ps
SortByDate(ps) == SortUpTo(ps, Len(ps))

\* assertOk(res)
Ok(status) == status >= 200 /\ status <= 299
ProviderError == "FX provider error"

\* fetchTimeSeries on a response with the given status and rates members
fetchTimeSeries(status, members) ==
    IF ~Ok(status)
    THEN [state |-> "threw", message |-> ProviderError, entries |-> <<>>]
    ELSE LET entries == ObjectEntries(members)
             mapped == [i \in 1..Len(entries) |-> PointOf(entries[i])]
         IN  [state |-> "returned", message |-> "",
              entries |-> SortByDate(SelectSeq(mapped, KeepPoint))]

\* the responses of the provider: a 200 with a rates object, or a 500
InitSeries ==
    /\ DashInit /\ RangeIdle /\ RouteIdle /\ ChartIdle /\ LaterIdle
    /\ \/ pStatus = 200 /\ pBody \in Bodies(DateKeys, RawValues)
       \/ pStatus = 500 /\ pBody = <<>>
    /\ sOut = NotFetched
    /\ lOut = NotFetched

FetchSeries ==
    /\ sOut = NotFetched
    /\ sOut' = fetchTimeSeries(pStatus, pBody)
    /\ UNCHANGED <<pStatus, pBody, lOut>>
    /\ UNCHANGED otherThanFx

NextSeries == FetchSeries

SpecSeries == InitSeries /\ [][NextSeries]_vars

\* the value the response gives a date: that of the last member with the key
ValueAt(key) ==
    LET i == CHOOSE i \in 1..Len(pBody) :
                /\ pBody[i].key = key
                /\ \A j \in (i + 1)..Len(pBody) : pBody[j].key # key
    IN  pBody[i].value
KeysOf(members) == {members[i].key : i \in 1..Len(members)}
PointsAt(key) == {i \in 1..Len(sOut.entries) : sOut.entries[i].t = key}

\* raw values the series must drop: 0, a negative, an infinity, a missing
\* value, a string that is not a number (each NaN or not positive finite
\* once coerced)
InvalidRaws ==
    {JNumber(Fin(0)), JNumber(Fin(-5)), JNumber(PosInf), Undefined, JString("abc")}

\* C14: every point of a returned series has a finite v > 0, and a raw
\* entry whose value is 0, negative, infinite, missing or not a number
\* (NaN once coerced) has no point.
C14_PointsArePositiveFinite ==
    sOut.state = "returned" =>
        /\ \A i \in 1..Len(sOut.entries) :
              sOut.entries[i].v.k = "fin" /\ sOut.entries[i].v.x > 0
        /\ \A key \in KeysOf(pBody) :
              ValueAt(key) \in InvalidRaws => PointsAt(key) = {}

\* a series returned from a response holding an infinite and a valid value
C14_Witness ==
    /\ sOut.state = "returned"
    /\ \E i, j \in 1..Len(pBody) :
          /\ pBody[i].value = JNumber(PosInf)
          /\ pBody[j].value = JNumber(Fin(1143))
          /\ pBody[i].key # pBody[j].key
    /\ Len(sOut.entries) = 1

\* C15: the points of a returned series are in increasing order of t, no
\* date twice.
C15_PointsSortedAndDistinct ==
    sOut.state = "returned" =>
        \A i, j \in 1..Len(sOut.entries) :
            i < j => StrLess(sOut.entries[i].t, sOut.entries[j].t)

\* a series of two points returned from three members, a date written
\* twice, the later date first
C15_Witness ==
    /\ sOut.state = "returned"
    /\ Len(pBody) = 3 /\ Len(sOut.entries) = 2
    /\ pBody[1].key = pBody[3].key
    /\ StrLess(pBody[2].key, pBody[1].key)

\* the number a raw value that is kept stands for: a positive finite number
\* itself, the numeric string "7.5" 7.5, true 1
ValidRaws == RawValues \ InvalidRaws
ValueOfValid(raw) ==
    CASE raw = JNumber(Fin(1143)) -> Fin(1143)
      [] raw = JString("7.5") -> Fin(75)
      [] raw = JTrue -> Fin(10)

\* C16: the points of a returned series are exactly the dates whose value
\* (coerced to a number) is finite and positive, one point per such date
\* with that date and that number; the other entries are dropped one by
\* one, and a 200 response always returns a series.
C16_ExactlyTheValidPoints ==
    sOut # NotFetched =>
        /\ Ok(pStatus) => sOut.state = "returned"
        /\ sOut.state = "returned" =>
              /\ \A key \in KeysOf(pBody) :
                    IF ValueAt(key) \in ValidRaws
                    THEN /\ Cardinality(PointsAt(key)) = 1
                         /\ \A i \in PointsAt(key) :
                               sOut.entries[i].v = ValueOfValid(ValueAt(key))
                    ELSE PointsAt(key) = {}
              /\ \A i \in 1..Len(sOut.entries) : sOut.entries[i].t \in KeysOf(pBody)

\* the response {2024-01-01: 0, 2024-01-02: 114.3} gave the one point
\* (2024-01-02, 114.3)
C16_Witness ==
    /\ pBody = <<[key |-> IsoDate(<<2024, 1, 1>>), value |-> JNumber(Fin(0))],
                 [key |-> IsoDate(<<2024, 1, 2>>), value |-> JNumber(Fin(1143))]>>
    /\ sOut = [state |-> "returned", message |-> "",
               entries |-> <<[t |-> IsoDate(<<2024, 1, 2>>), v |-> Fin(1143)]>>]

\* fetchLatestRates on a response with the given status and rates members:
\* the rates of the snapshot are the entries with their keys upper-cased,
\* collected by Object.fromEntries (a key given twice keeps its last value)
fetchLatestRates(status, members) ==
    IF ~Ok(status)
    THEN [state |-> "threw", message |-> ProviderError, entries |-> <<>>]
    ELSE LET entries == ObjectEntries(members)
             mapped == [i \in 1..Len(entries) |->
                          [key |-> UpperCaseUnits(entries[i].key),
                           value |-> entries[i].value]]
         IN  [state |-> "returned", message |-> "",
              entries |-> ObjectEntries(mapped)]

InitLatest ==
    /\ DashInit /\ RangeIdle /\ RouteIdle /\ ChartIdle /\ LaterIdle
    /\ \/ pStatus = 200 /\ pBody \in Bodies(CurrencyKeys, LatestValues)
       \/ pStatus = 500 /\ pBody = <<>>
    /\ sOut = NotFetched
    /\ lOut = NotFetched

FetchLatest ==
    /\ lOut = NotFetched
    /\ lOut' = fetchLatestRates(pStatus, pBody)
    /\ UNCHANGED <<pStatus, pBody, sOut>>
    /\ UNCHANGED otherThanFx

NextLatest == FetchLatest

SpecLatest == InitLatest /\ [][NextLatest]_vars

\* C17: every value in the rates of a snapshot fetchLatestRates returns is
\* a positive finite number, whatever the provider sent.
C17_SnapshotRatesArePositiveFinite ==
    lOut.state = "returned" =>
        \A i \in 1..Len(lOut.entries) :
            LET value == lOut.entries[i].value
            IN  value.type = "number" /\ value.num.k = "fin" /\ value.num.x > 0

-----------------------------------------------------------------------------
(* TimeSeriesChart: the index-to-x mapping and the hover resolution *)

\* points of the series plotted
MaxPoints == 8

\* const pad = 24
pad == 24

\* numbers that are not whole are exact fractions <<numerator, denominator>>
\* in lowest terms with a positive denominator (rounding error of the
\* floating-point operations is left out)
RECURSIVE Gcd(_, _)
Gcd(a, b) == IF b = 0 THEN a ELSE Gcd(b, a % b)
Abs(a) == IF a < 0 THEN -a ELSE a
Rat(p, q) ==
    LET sp == IF q < 0 THEN -p ELSE p
        sq == Abs(q)
        g == Gcd(Abs(sp), sq)
    IN  <<sp \div g, sq \div g>>
Whole(i) == <<i, 1>>
RAdd(a, b) == Rat(a[1] * b[2] + b[1] * a[2], a[2] * b[2])
RSub(a, b) == Rat(a[1] * b[2] - b[1] * a[2], a[2] * b[2])
RMul(a, b) == Rat(a[1] * b[1], a[2] * b[2])
RDiv(a, b) == Rat(a[1] * b[2], a[2] * b[1])
RLess(a, b) == a[1] * b[2] < b[1] * a[2]
RMin(a, b) == IF RLess(b, a) THEN b ELSE a
RMax(a, b) == IF RLess(a, b) THEN b ELSE a

\* Math.max(a, b), Math.min(a, b) of whole numbers
Max(a, b) == IF a < b THEN b ELSE a
Min(a, b) == IF b < a THEN b ELSE a

\* const innerW = width - pad * 2
innerW(width) == width - pad * 2

\* xFor(i) for n points in a viewport of the given width
\* faulty variant: the left padding is not added
xForFromZero(i, n, width) ==
    RMul(Rat(i, Max(n - 1, 1)), Whole(innerW(width)))
xFor(i, n, width) ==
    RAdd(Whole(pad), RMul(Rat(i, Max(n - 1, 1)), Whole(innerW(width))))

\* dims: the default 640 x 220, or what the resize observer sets (at least
\* 320 wide)
Dims == {[w |-> 640, h |-> 220], [w |-> 320, h |-> 220]}

\* the rendered box of the svg
Rects == {[left |-> l, top |-> 100, width |-> w, height |-> 220] :
             l \in {0, 16}, w \in {300, 640}}

\* cursor positions over the box, every 10 pixels across
Events(rect) ==
    {[clientX |-> rect.left + 10 * k, clientY |-> rect.top + y] :
        k \in 0..(rect.width \div 10), y \in {0, 110}}

InitChart ==
    /\ DashInit /\ RangeIdle /\ RouteIdle /\ FxIdle /\ LaterIdle
    /\ cN \in 0..MaxPoints
    /\ cDims \in Dims
    /\ cRect \in Rects
    /\ cEvent \in Events(cRect)
    /\ cXs = <<>>
    /\ cHover = NoHover

\* xFor applied to every index of the series (the render does so for the
\* path of a series of two points or more)
Plot ==
    /\ cXs = <<>>
    /\ cN >= 1
    /\ cXs' = [k \in 1..cN |-> xFor(k - 1, cN, cDims.w)]
    /\ UNCHANGED <<cN, cDims, cRect, cEvent, cHover>>
    /\ UNCHANGED otherThanChart

\* function xToT(left, right, x)
xToT(left, right, x) ==
    IF ~RLess(left, right) THEN Whole(0)
    ELSE RDiv(RSub(x, left), RSub(right, left))

\* Math.round: the nearest whole number, a half going up
\* faulty variant: Math.floor
RoundDown(a) == a[1] \div a[2]
Round(a) == (2 * a[1] + a[2]) \div (2 * a[2])

\* the svg (and with it svgRef.current and its handlers) is rendered for a
\* series of two points or more
SvgRendered(n) == n >= 2

\* hoverFromEvent(e) for n points, the viewport dims and the rendered box
\* faulty variant: neither the logical x nor the index is clamped
hoverFromEventUnclamped(e, n, dims, rect) ==
    IF ~SvgRendered(n) \/ n = 0 THEN NoHover
    ELSE LET px == e.clientX - rect.left
             py == e.clientY - rect.top
             vx == RMul(Rat(px, rect.width), Whole(dims.w))
             vy == RMul(Rat(py, rect.height), Whole(dims.h))
             left == Whole(pad)
             right == Whole(pad + innerW(dims.w))
             t == xToT(left, right, vx)
             idx == Round(RMul(t, Whole(n - 1)))
         IN  [idx |-> idx, vx |-> vx, vy |-> vy, px |-> px, py |-> py]
hoverFromEvent(e, n, dims, rect) ==
    IF ~SvgRendered(n) \/ n = 0 THEN NoHover
    ELSE LET px == e.clientX - rect.left
             py == e.clientY - rect.top
             vx == RMul(Rat(px, rect.width), Whole(dims.w))
             vy == RMul(Rat(py, rect.height), Whole(dims.h))
             left == Whole(pad)
             right == Whole(pad + innerW(dims.w))
             clampedX == RMin(RMax(vx, left), right)
             t == xToT(left, right, clampedX)
             idx == Round(RMul(t, Whole(n - 1)))
             clampedIdx == Min(Max(idx, 0), n - 1)
         IN  [idx |-> clampedIdx, vx |-> vx, vy |-> vy, px |-> px, py |-> py]

\* onMove: setHover(hoverFromEvent(e)); the handler is on the svg
OnMove ==
    /\ SvgRendered(cN)
    /\ cHover' = hoverFromEvent(cEvent, cN, cDims, cRect)
    /\ UNCHANGED <<cN, cDims, cRect, cEvent, cXs>>
    /\ UNCHANGED otherThanChart

\* onLeave: setHover(null)
OnLeave ==
    /\ SvgRendered(cN)
    /\ cHover # NoHover
    /\ cHover' = NoHover
    /\ UNCHANGED <<cN, cDims, cRect, cEvent, cXs>>
    /\ UNCHANGED otherThanChart

NextChart == Plot \/ OnMove \/ OnLeave

SpecChart == InitChart /\ [][NextChart]_vars

\* C18: xFor is increasing in the index (x(i) < x(j) for indices i < j of
\* one series, so never equal among two points or more), index 0 is at the
\* left padding and, for two points or more, index n-1 at width - padding.
C18_XForMonotonic ==
    cXs # <<>> =>
        /\ \A i, j \in 1..Len(cXs) : i < j => RLess(cXs[i], cXs[j])
        /\ cXs[1] = Whole(pad)
        /\ cN >= 2 => cXs[cN] = Whole(cDims.w - pad)

\* five points plotted in a viewport 640 wide: index 4 is at 616
C18_Witness ==
    /\ cDims.w = 640 /\ cN = 5
    /\ Len(cXs) = 5
    /\ cXs[5] = Whole(616)
    /\ RLess(cXs[2], cXs[3])

\* C19: a resolved hover has its index in [0, n-1], and resolving the same
\* cursor again over the same points and viewport gives the same hover.
C19_HoverIndexInRange ==
    /\ [](cHover # NoHover => cHover.idx \in 0..(cN - 1))
    /\ [][OnMove => cHover' # NoHover /\ (cHover # NoHover => cHover' = cHover)]_vars

\* the cursor at the left edge of the box, in the padding, over eight
\* points in the narrow viewport: index 0
C19_Witness ==
    /\ cN = 8 /\ cDims.w = 320
    /\ cEvent.clientX = cRect.left
    /\ cHover # NoHover /\ cHover.idx = 0

\* the logical x of the cursor clamped to the plot area, from the event
ClampedLogicalX ==
    LET x == Rat((cEvent.clientX - cRect.left) * cDims.w, cRect.width)
    IN  IF RLess(x, Whole(pad)) THEN Whole(pad)
        ELSE IF RLess(Whole(cDims.w - pad), x) THEN Whole(cDims.w - pad)
        ELSE x
RAbs(a) == <<Abs(a[1]), a[2]>>
Distance(a, b) == RAbs(RSub(a, b))

\* C20: for two points or more, no index has its x nearer to the clamped
\* logical x than the selected one (a cursor left of the plot area selects
\* 0, right of it n-1), and the vx, vy stored are the cursor's logical
\* coordinates, not clamped.
C20_HoverSelectsNearestIndex ==
    cHover # NoHover /\ cN >= 2 =>
        /\ \A k \in 0..(cN - 1) :
              ~RLess(Distance(xFor(k, cN, cDims.w), ClampedLogicalX),
                     Distance(xFor(cHover.idx, cN, cDims.w), ClampedLogicalX))
        /\ (cEvent.clientX - cRect.left) * cDims.w < pad * cRect.width
              => cHover.idx = 0
        /\ (cEvent.clientX - cRect.left) * cDims.w > (cDims.w - pad) * cRect.width
              => cHover.idx = cN - 1
        /\ cHover.vx[1] * cRect.width
              = (cEvent.clientX - cRect.left) * cDims.w * cHover.vx[2]
        /\ cHover.vy[1] * cRect.height
              = (cEvent.clientY - cRect.top) * cDims.h * cHover.vy[2]

\* the cursor right of the plot area, in the padding: the last of five
\* points selected, vx beyond width - padding
C20_Witness ==
    /\ cN = 5 /\ cDims.w = 640
    /\ cHover # NoHover /\ cHover.idx = 4
    /\ RLess(Whole(cDims.w - pad), cHover.vx)

-----------------------------------------------------------------------------
(* Further properties of the latest-rates poll stream *)

\* C25: when the dashboard holds a snapshot and shows neither activity nor
\* error (isLoading false, errorMessage null) with a non-empty tracked set,
\* the snapshot is the result of a fetch issued for the current symbol set.
C25_QuietSnapshotIsForCurrentSymbols ==
    latest # NoSnapshot /\ ~isLoading /\ errorMessage = Null /\ watchlist # <<>> =>
        latest.symbols = SymbolsParam(watchlist)

\* C27: while the tracked set is empty no fetch is started: the symbols
\* effect of a removal that empties the set and a manual refresh at the
\* empty set issue no request and change none of snapshot, error message
\* and loading flag, no timer is armed, and no call in flight is cancelled.
C27_EmptySetStartsNothing ==
    [][watchlist' = <<>> =>
          /\ Len(fetches') = Len(fetches)
          /\ \A f \in DOMAIN fetches : ~fetches[f].aborted => ~fetches'[f].aborted
          /\ ~timerArmed'
          /\ (ManualRefresh \/ \E code \in Codes : OnRemove(code)) =>
                UNCHANGED <<latest, errorMessage, isLoading, fetches, abortRef>>]_vars

\* the last code was removed while the mount's call was in flight: the set
\* is empty, the call still awaits its response, no timer is armed
C27_Witness ==
    /\ mounted /\ watchlist = <<>>
    /\ Len(fetches) = 1 /\ Live = {1}
    /\ ~timerArmed
    /\ isLoading

-----------------------------------------------------------------------------
(* The poll stream against a provider that answers every request with
   success after a fixed latency. Time is counted: a response arrives when
   its call is `latency` seconds old, a cancelled call's continuation and a
   response's res.json() run before any more time passes, and the interval
   callback runs when the interval has elapsed. Only calls that have not
   returned are kept in `fetches`. *)

\* seconds the provider may take: less, and more, than the default interval
Latencies == {TimeStep, 3 * TimeStep}

InitSlow ==
    /\ DashInit /\ RangeIdle /\ RouteIdle /\ FxIdle /\ ChartIdle
    /\ ListIdle /\ ScaleIdle /\ CardInit /\ LatestRouteIdle
    /\ age = 0
    /\ latency \in Latencies

\* a call that has returned is read by nothing: it is dropped, and the
\* controller reference follows the calls that remain
Forget(f) == [k \in 1..(Len(fetches) - 1) |-> IF k < f THEN fetches[k] ELSE fetches[k + 1]]
RefAfterForget(f) == IF abortRef = f THEN 0 ELSE IF abortRef > f THEN abortRef - 1 ELSE abortRef

\* a response that is due, or a continuation that runs at once
Due ==
    \E f \in DOMAIN fetches :
        \/ fetches[f].aborted
        \/ fetches[f].pc = "json"
        \/ fetches[f].pc = "fetch" /\ age >= latency

\* the mount effect and the effects of the render it causes
SlowMount ==
    /\ ~mounted
    /\ mounted' = TRUE
    /\ \E wl \in StoredWatchlists :
         /\ watchlist' = wl
         /\ SymbolsEffect(wl)
         /\ AutoRefreshEffect(autoRefresh, wl)
    /\ age' = 0
    /\ UNCHANGED <<refreshSeconds, autoRefresh, latency>>
    /\ UNCHANGED otherThanSlow

\* the interval select
SlowSetRefreshSeconds(n) ==
    /\ mounted
    /\ autoRefresh
    /\ n # refreshSeconds
    /\ refreshSeconds' = n
    /\ AutoRefreshEffect(autoRefresh, watchlist)
    /\ UNCHANGED <<mounted, watchlist, autoRefresh, latest, isLoading, errorMessage,
                   abortRef, fetches>>
    /\ UNCHANGED slowVars
    /\ UNCHANGED otherThanSlow

\* time passes while nothing is due and the interval has not elapsed
SlowTimePasses ==
    /\ timerArmed
    /\ ~Due
    /\ timerElapsed + TimeStep <= IntervalSeconds
    /\ timerElapsed' = timerElapsed + TimeStep
    /\ age' = Min(age + TimeStep, latency)
    /\ UNCHANGED <<mounted, watchlist, refreshSeconds, autoRefresh, latest, isLoading,
                   errorMessage, abortRef, fetches, timerArmed, latency>>
    /\ UNCHANGED otherThanSlow

\* the setInterval callback: loadLatest(); a response due at the same
\* instant is delivered first
SlowTick ==
    /\ timerArmed
    /\ timerElapsed >= IntervalSeconds
    /\ ~Due
    /\ LoadLatest(SymbolsParam(watchlist))
    /\ timerElapsed' = 0
    /\ age' = 0
    /\ UNCHANGED <<mounted, watchlist, refreshSeconds, autoRefresh, timerArmed, latency>>
    /\ UNCHANGED otherThanSlow

\* fetch() resolves with the provider's 200 once the call is latency old
SlowRespond(f) ==
    /\ fetches[f].pc = "fetch"
    /\ ~fetches[f].aborted
    /\ age >= latency
    /\ fetches' = [fetches EXCEPT ![f].status = 200, ![f].pc = "json"]
    /\ UNCHANGED <<latest, isLoading, errorMessage>>
    /\ UNCHANGED frame
    /\ UNCHANGED slowVars
    /\ UNCHANGED otherThanSlow

\* res.json() resolves: setLatest(data), finally
SlowJsonDone(f) ==
    /\ fetches[f].pc = "json"
    /\ ~fetches[f].aborted
    /\ latest' = Snapshot(f)
    /\ UNCHANGED errorMessage
    /\ Finally
    /\ fetches' = Forget(f)
    /\ abortRef' = RefAfterForget(f)
    /\ UNCHANGED <<mounted, watchlist, refreshSeconds, autoRefresh, timerArmed, timerElapsed>>
    /\ UNCHANGED slowVars
    /\ UNCHANGED otherThanSlow

\* the continuation of a call whose signal was aborted: the AbortError
\* return of the catch block, then finally
SlowAbortSettle(f) ==
    /\ fetches[f].pc \in InFlight
    /\ fetches[f].aborted
    /\ IF fetches[f].pc = "text"
       THEN CatchError(FailureMessage(fetches[f].status, ""))
       ELSE UNCHANGED <<errorMessage, latest>>
    /\ Finally
    /\ fetches' = Forget(f)
    /\ abortRef' = RefAfterForget(f)
    /\ UNCHANGED <<mounted, watchlist, refreshSeconds, autoRefresh, timerArmed, timerElapsed>>
    /\ UNCHANGED slowVars
    /\ UNCHANGED otherThanSlow

NextSlow ==
    \/ SlowMount
    \/ \E n \in PRESET_REFRESH_SECONDS : SlowSetRefreshSeconds(n)
    \/ SlowTimePasses
    \/ SlowTick
    \/ \E f \in DOMAIN fetches : SlowRespond(f)
    \/ \E f \in DOMAIN fetches : SlowJsonDone(f)
    \/ \E f \in DOMAIN fetches : SlowAbortSettle(f)

\* the event loop runs every callback that is ready, and time passes
SpecSlow ==
    /\ InitSlow
    /\ [][NextSlow]_vars
    /\ WF_vars(SlowMount)
    /\ WF_vars(SlowTimePasses)
    /\ WF_vars(SlowTick)
    /\ WF_vars(\E f \in DOMAIN fetches : SlowRespond(f))
    /\ WF_vars(\E f \in DOMAIN fetches : SlowJsonDone(f))
    /\ WF_vars(\E f \in DOMAIN fetches : SlowAbortSettle(f))

\* C26: with a provider that answers every request successfully, auto
\* refresh on and a non-empty tracked set, the dashboard eventually holds a
\* snapshot, whatever the provider's latency
C26_EventuallyHoldsSnapshot ==
    (mounted /\ autoRefresh /\ watchlist # <<>>) ~> (latest # NoSnapshot)

-----------------------------------------------------------------------------
(* lib/watchlist: addToWatchlist and removeFromWatchlist, as onAdd and
   onRemove apply them to the list held by the dashboard *)

\* upper-case codes: "USD", "EUR", "JPY"
UpperCodes == {<<85, 83, 68>>, <<69, 85, 82>>, <<74, 80, 89>>}

\* codes as typed: the upper-case ones, and "usd", "Eur", "jpY"
TypedCodes == UpperCodes \cup {<<117, 115, 100>>, <<69, 117, 114>>, <<106, 112, 89>>}

\* lists of upper-case, pairwise distinct codes
DistinctLists ==
    {<<>>} \cup {<<c>> : c \in UpperCodes}
           \cup {w \in UpperCodes \X UpperCodes : w[1] # w[2]}
           \cup {w \in UpperCodes \X UpperCodes \X UpperCodes :
                    w[1] # w[2] /\ w[1] # w[3] /\ w[2] # w[3]}

InitWatchlist ==
    /\ DashInit /\ RangeIdle /\ RouteIdle /\ FxIdle /\ ChartIdle
    /\ SlowIdle /\ ScaleIdle /\ CardInit /\ LatestRouteIdle
    /\ wItems \in DistinctLists
    /\ wPrev = <<>>
    /\ wCall = NoCall

\* onAdd: setWatchlist((prev) => addToWatchlist(prev, code))
AddCall(code) ==
    /\ wItems' = addToWatchlist(wItems, code)
    /\ wPrev' = wItems
    /\ wCall' = [op |-> "add", code |-> code]
    /\ UNCHANGED otherThanList

\* onRemove: setWatchlist((prev) => removeFromWatchlist(prev, code))
RemoveCall(code) ==
    /\ wItems' = removeFromWatchlist(wItems, code)
    /\ wPrev' = wItems
    /\ wCall' = [op |-> "remove", code |-> code]
    /\ UNCHANGED otherThanList

NextWatchlist ==
    \/ \E code \in TypedCodes : AddCall(code)
    \/ \E code \in TypedCodes : RemoveCall(code)

SpecWatchlist == InitWatchlist /\ [][NextWatchlist]_vars

IsUpperCase(code) == \A k \in 1..Len(code) : code[k] \notin 97..122
Listed(items, code) == \E i \in 1..Len(items) : items[i] = code
PositionIn(items, code) == CHOOSE i \in 1..Len(items) : items[i] = code

\* C30: from a list of upper-case, pairwise distinct codes, every list
\* reached by addToWatchlist and removeFromWatchlist calls with codes in any
\* letter case has upper-case, pairwise distinct codes; an add keeps the
\* list as its prefix and appends at most the upper-cased code, returning
\* the list unchanged when that code is listed; a remove keeps the other
\* codes in their order, and leaves the contents unchanged when the
\* upper-cased code is not listed
C30_WatchlistStaysNormalised ==
    LET upper == UpperCaseUnits(wCall.code)
    IN  /\ \A i \in 1..Len(wItems) : IsUpperCase(wItems[i])
        /\ \A i, j \in 1..Len(wItems) : i # j => wItems[i] # wItems[j]
        /\ wCall.op = "add" =>
             /\ Listed(wItems, upper)
             /\ SubSeq(wItems, 1, Len(wPrev)) = wPrev
             /\ Len(wItems) = IF Listed(wPrev, upper) THEN Len(wPrev) ELSE Len(wPrev) + 1
        /\ wCall.op = "remove" =>
             /\ ~Listed(wItems, upper)
             /\ \A i \in 1..Len(wPrev) : wPrev[i] # upper => Listed(wItems, wPrev[i])
             /\ \A i, j \in 1..Len(wItems) :
                    i < j => /\ Listed(wPrev, wItems[i]) /\ Listed(wPrev, wItems[j])
                             /\ PositionIn(wPrev, wItems[i]) < PositionIn(wPrev, wItems[j])
             /\ ~Listed(wPrev, upper) => wItems = wPrev

\* "usd" was added to a list that holds "USD" and another code
C30_Witness ==
    /\ wCall.op = "add"
    /\ ~IsUpperCase(wCall.code)
    /\ Listed(wPrev, UpperCaseUnits(wCall.code))
    /\ Len(wPrev) >= 2
    /\ wItems = wPrev

-----------------------------------------------------------------------------
(* TimeSeriesChart: the value scale, the path and the markers of one render *)

\* values v of the points (rates: finite and above zero): 1, 1.5, 2, 5
ScaleValues == {<<1, 1>>, <<3, 2>>, <<2, 1>>, <<5, 1>>}

\* point lists of up to three points
ScalePoints ==
    {<<>>} \cup {<<v>> : v \in ScaleValues} \cup (ScaleValues \X ScaleValues)
           \cup (ScaleValues \X ScaleValues \X ScaleValues)

\* dims: the default, the narrowest, and a fullscreen viewport
ScaleDims == {[w |-> 640, h |-> 220], [w |-> 320, h |-> 220], [w |-> 1280, h |-> 420]}

\* Math.min(...values) / Math.max(...values), 0 for no values
RECURSIVE MinOf(_)
MinOf(values) ==
    IF Len(values) = 1 THEN values[1] ELSE RMin(values[1], MinOf(Tail(values)))
RECURSIVE MaxOf(_)
MaxOf(values) ==
    IF Len(values) = 1 THEN values[1] ELSE RMax(values[1], MaxOf(Tail(values)))
minV(points) == IF Len(points) # 0 THEN MinOf(points) ELSE Whole(0)
maxV(points) == IF Len(points) # 0 THEN MaxOf(points) ELSE Whole(0)

safeMin(points) ==
    IF minV(points) = maxV(points) THEN RSub(minV(points), <<1, 100>>)
    ELSE RSub(minV(points), RMul(RSub(maxV(points), minV(points)), <<1, 20>>))

safeMax(points) ==
    IF minV(points) = maxV(points) THEN RAdd(maxV(points), <<1, 100>>)
    ELSE RAdd(maxV(points), RMul(RSub(maxV(points), minV(points)), <<1, 20>>))

\* const innerH = height - pad * 2
innerH(height) == height - pad * 2

\* faulty variant: t is not inverted
yForNotInverted(v, points, height) ==
    LET t == RDiv(RSub(v, safeMin(points)), RSub(safeMax(points), safeMin(points)))
    IN  RAdd(Whole(pad), RMul(t, Whole(innerH(height))))

\* yFor(v)
yFor(v, points, height) ==
    LET t == RDiv(RSub(v, safeMin(points)), RSub(safeMax(points), safeMin(points)))
    IN  RAdd(Whole(pad), RMul(RSub(Whole(1), t), Whole(innerH(height))))

\* faulty variant: the path of any series that has a point
pathDOfAnyPoint(points, dims) ==
    [i \in 1..Len(points) |->
        <<xFor(i - 1, Len(points), dims.w), yFor(points[i], points, dims.h)>>]

\* pathD: the vertices of "M x y L x y ...", <<>> for the empty string
pathD(points, dims) ==
    IF Len(points) < 2 THEN <<>>
    ELSE [i \in 1..Len(points) |->
            <<xFor(i - 1, Len(points), dims.w), yFor(points[i], points, dims.h)>>]

\* d of the area path: pathD closed along the bottom edge, "" without pathD
areaD(points, dims) ==
    IF pathD(points, dims) # <<>>
    THEN pathD(points, dims) \o <<<<Whole(pad + innerW(dims.w)), Whole(dims.h - pad)>>,
                                  <<Whole(pad), Whole(dims.h - pad)>>>>
    ELSE <<>>

\* points.findIndex((p) => p.v === v), from 0
FindIndex(points, v) ==
    IF \E i \in 1..Len(points) : points[i] = v
    THEN (CHOOSE i \in 1..Len(points) :
              points[i] = v /\ \A j \in 1..(i - 1) : points[j] # v) - 1
    ELSE -1

\* renderMinMaxMarkers: the circles of the minimum and of the maximum
renderMinMaxMarkers(points, dims) ==
    IF Len(points) < 2 THEN <<>>
    ELSE LET minIdx == FindIndex(points, minV(points))
             maxIdx == FindIndex(points, maxV(points))
         IN  <<<<xFor(minIdx, Len(points), dims.w), yFor(minV(points), points, dims.h)>>,
               <<xFor(maxIdx, Len(points), dims.w), yFor(maxV(points), points, dims.h)>>>>

\* the divisors of one render without hover: first.v in delta.pct when it is
\* not 0, and those of xFor and yFor when the path and markers are computed
Divisors(points, dims) ==
    (IF Len(points) # 0 /\ points[1] # Whole(0) THEN {points[1]} ELSE {})
    \cup (IF pathD(points, dims) # <<>> \/ renderMinMaxMarkers(points, dims) # <<>>
          THEN {Whole(Max(Len(points) - 1, 1)), RSub(safeMax(points), safeMin(points))}
          ELSE {})

InitScale ==
    /\ DashInit /\ RangeIdle /\ RouteIdle /\ FxIdle /\ ChartIdle
    /\ SlowIdle /\ ListIdle /\ CardInit /\ LatestRouteIdle
    /\ gPoints \in ScalePoints
    /\ gDims \in ScaleDims
    /\ gRender = NotRendered

\* one render of the chart without hover
Render ==
    /\ ~gRender.rendered
    /\ gRender' = [rendered |-> TRUE,
                   insufficient |-> Len(gPoints) < 2,
                   pathD |-> pathD(gPoints, gDims),
                   area |-> areaD(gPoints, gDims),
                   markers |-> renderMinMaxMarkers(gPoints, gDims),
                   axisMin |-> safeMin(gPoints),
                   axisMax |-> safeMax(gPoints),
                   divisors |-> Divisors(gPoints, gDims)]
    /\ UNCHANGED <<gPoints, gDims>>
    /\ UNCHANGED otherThanScale

NextScale == Render

SpecScale == InitScale /\ [][NextScale]_vars

\* C21: a render of 0 or 1 points has no line path, no area path and no
\* markers, shows the insufficient-data state, and divides by nothing that
\* is zero
C21_TooFewPointsDegrade ==
    gRender.rendered /\ Len(gPoints) < 2 =>
        /\ gRender.pathD = <<>>
        /\ gRender.area = <<>>
        /\ gRender.markers = <<>>
        /\ gRender.insufficient
        /\ Whole(0) \notin gRender.divisors

C21_Witness ==
    /\ gRender.rendered
    /\ Len(gPoints) = 1
    /\ gRender.insufficient

RLE(a, b) == ~RLess(b, a)

-----------------------------------------------------------------------------
(* CurrencyCard: one card, its loadSeries calls through
   GET /api/fx/timeseries, and the hover of the charts it renders *)

\* the code prop: "USD"
CardCode == <<85, 83, 68>>

\* points.length of a series the route returns
PointCounts == {0, 1, 2, 3}

SeriesIdle == [status |-> "idle", data |-> NoData, message |-> <<>>]
SeriesLoading == [status |-> "loading", data |-> NoData, message |-> <<>>]
SeriesLoaded(data) == [status |-> "loaded", data |-> data, message |-> <<>>]
SeriesError(message) == [status |-> "error", data |-> NoData, message |-> message]

\* `Failed to load time series (${res.status}): ${text || res.statusText}`
SeriesFailureMessage(status, text) ==
    <<"Failed to load time series", status, IF text # "" THEN text ELSE StatusText(status)>>

\* the inline chart is rendered in the expanded panel of a loaded card, the
\* fullscreen chart in the open portal of a loaded card
InlineChart(exp, series) == exp /\ series.status = "loaded"
FullChart(full, series) == full /\ series.status = "loaded"

\* a chart that is not rendered has no state; one that stays rendered keeps
\* its hover
KeepHover ==
    /\ kHoverInline' = IF InlineChart(kExpanded', kSeries') /\ InlineChart(kExpanded, kSeries)
                       THEN kHoverInline ELSE NoChartHover
    /\ kHoverFull' = IF FullChart(kFullscreen', kSeries') /\ FullChart(kFullscreen, kSeries)
                     THEN kHoverFull ELSE NoChartHover

\* faulty variant: loadSeries that keeps the series shown while it fetches
loadSeriesKeepsSeries(nextRange) ==
    /\ UNCHANGED kSeries
    /\ kLoads' = Append(kLoads, [range |-> nextRange, pc |-> "fetch", status |-> 0])
    /\ qSymbol' = Param(CardCode)
    /\ qRange' = Param(TokenText[nextRange])
    /\ routePc' = "start"
    /\ upstream' = NoRequest
    /\ response' = NoResponse

\* loadSeries up to its await of fetch(): setSeries loading, and the request
\* /api/fx/timeseries?symbol=code&range=nextRange
loadSeries(nextRange) ==
    /\ kSeries' = SeriesLoading
    /\ kLoads' = Append(kLoads, [range |-> nextRange, pc |-> "fetch", status |-> 0])
    /\ qSymbol' = Param(CardCode)
    /\ qRange' = Param(TokenText[nextRange])
    /\ routePc' = "start"
    /\ upstream' = NoRequest
    /\ response' = NoResponse

NoLoad == UNCHANGED <<kSeries, kLoads, routeVars>>

\* faulty variant: ensureSeriesLoaded without the status check
ensureSeriesLoadedAlways(nextRange) == loadSeries(nextRange)

ensureSeriesLoaded(nextRange) ==
    IF kSeries.status = "idle" \/ kSeries.status = "error"
    THEN loadSeries(nextRange) ELSE NoLoad

\* faulty variant: toggle that also loads after a failure
toggleRetriesOnError(next) ==
    IF next /\ (kSeries.status = "idle" \/ kSeries.status = "error")
    THEN loadSeries(kRange) ELSE NoLoad

\* toggle after setExpanded(next)
toggle(next) ==
    IF next /\ kSeries.status = "idle" THEN loadSeries(kRange) ELSE NoLoad

\* the card's main button
Toggle ==
    /\ kExpanded' = ~kExpanded
    /\ toggle(~kExpanded)
    /\ UNCHANGED <<kRange, kFullscreen>>
    /\ KeepHover
    /\ UNCHANGED otherThanCard

\* the Fullscreen button of the header
FullscreenHeader ==
    /\ kFullscreen' = TRUE
    /\ ensureSeriesLoaded(kRange)
    /\ UNCHANGED <<kExpanded, kRange>>
    /\ KeepHover
    /\ UNCHANGED otherThanCard

\* the Fullscreen button of the expanded panel, disabled while loading
FullscreenPanel ==
    /\ kExpanded
    /\ kSeries.status # "loading"
    /\ kFullscreen' = TRUE
    /\ ensureSeriesLoaded(kRange)
    /\ UNCHANGED <<kExpanded, kRange>>
    /\ KeepHover
    /\ UNCHANGED otherThanCard

\* onClose of the portal
CloseFullscreen ==
    /\ kFullscreen
    /\ kFullscreen' = FALSE
    /\ NoLoad
    /\ UNCHANGED <<kExpanded, kRange>>
    /\ KeepHover
    /\ UNCHANGED otherThanCard

\* a range button of a rendered chart: onRangeChange
RangeChange(nextRange) ==
    /\ InlineChart(kExpanded, kSeries) \/ FullChart(kFullscreen, kSeries)
    /\ kRange' = nextRange
    /\ IF kExpanded \/ kFullscreen THEN loadSeries(nextRange) ELSE NoLoad
    /\ UNCHANGED <<kExpanded, kFullscreen>>
    /\ KeepHover
    /\ UNCHANGED otherThanCard

\* kLoads without the call l, which has returned
WithoutLoad(l) == [k \in 1..(Len(kLoads) - 1) |-> IF k < l THEN kLoads[k] ELSE kLoads[k + 1]]

cardFrame == <<kExpanded, kRange, kFullscreen>>

\* fetch() resolves with the route's response to the last request
CardRespond(l) ==
    /\ kLoads[l].pc = "fetch"
    /\ l = Len(kLoads)
    /\ routePc = "done"
    /\ kLoads' = [kLoads EXCEPT ![l].status = response.status,
                                ![l].pc = IF response.status = 200 THEN "json" ELSE "text"]
    /\ UNCHANGED <<kSeries, routeVars>>
    /\ UNCHANGED cardFrame
    /\ KeepHover
    /\ UNCHANGED otherThanCard

\* fetch() rejects with a network error: the catch block
CardNetworkFail(l) ==
    /\ kLoads[l].pc = "fetch"
    /\ kLoads' = WithoutLoad(l)
    /\ kSeries' = SeriesError(NetworkMessage)
    /\ UNCHANGED routeVars
    /\ UNCHANGED cardFrame
    /\ KeepHover
    /\ UNCHANGED otherThanCard

\* res.text() of a non-ok response settles (with "" when it rejects); the
\* Error is thrown and caught
CardTextDone(l) ==
    /\ kLoads[l].pc = "text"
    /\ kLoads' = WithoutLoad(l)
    /\ \E text \in {response.error, ""} :
          kSeries' = SeriesError(SeriesFailureMessage(kLoads[l].status, text))
    /\ UNCHANGED routeVars
    /\ UNCHANGED cardFrame
    /\ KeepHover
    /\ UNCHANGED otherThanCard

\* res.json() resolves: setSeries loaded with the series of the range the
\* route was asked for
CardJsonDone(l) ==
    /\ kLoads[l].pc = "json"
    /\ kLoads' = WithoutLoad(l)
    /\ \E n \in PointCounts :
          kSeries' = SeriesLoaded([range |-> response.data.range, n |-> n])
    /\ UNCHANGED routeVars
    /\ UNCHANGED cardFrame
    /\ KeepHover
    /\ UNCHANGED otherThanCard

\* res.json() rejects on a malformed body: the catch block
CardJsonFail(l) ==
    /\ kLoads[l].pc = "json"
    /\ kLoads' = WithoutLoad(l)
    /\ kSeries' = SeriesError(ParseMessage)
    /\ UNCHANGED routeVars
    /\ UNCHANGED cardFrame
    /\ KeepHover
    /\ UNCHANGED otherThanCard

\* onMove over the svg of the inline chart, drawn for two points or more:
\* setHover with an index of the points shown
MoveInline(idx) ==
    /\ InlineChart(kExpanded, kSeries)
    /\ SvgRendered(kSeries.data.n)
    /\ idx \in 0..(kSeries.data.n - 1)
    /\ kHoverInline' = [idx |-> idx, of |-> kSeries.data]
    /\ UNCHANGED <<kExpanded, kRange, kSeries, kFullscreen, kLoads, kHoverFull, routeVars>>
    /\ UNCHANGED otherThanCard

\* onLeave of the inline chart
LeaveInline ==
    /\ InlineChart(kExpanded, kSeries)
    /\ SvgRendered(kSeries.data.n)
    /\ kHoverInline' = NoChartHover
    /\ UNCHANGED <<kExpanded, kRange, kSeries, kFullscreen, kLoads, kHoverFull, routeVars>>
    /\ UNCHANGED otherThanCard

\* onMove over the svg of the fullscreen chart
MoveFull(idx) ==
    /\ FullChart(kFullscreen, kSeries)
    /\ SvgRendered(kSeries.data.n)
    /\ idx \in 0..(kSeries.data.n - 1)
    /\ kHoverFull' = [idx |-> idx, of |-> kSeries.data]
    /\ UNCHANGED <<kExpanded, kRange, kSeries, kFullscreen, kLoads, kHoverInline, routeVars>>
    /\ UNCHANGED otherThanCard

\* onLeave of the fullscreen chart
LeaveFull ==
    /\ FullChart(kFullscreen, kSeries)
    /\ SvgRendered(kSeries.data.n)
    /\ kHoverFull' = NoChartHover
    /\ UNCHANGED <<kExpanded, kRange, kSeries, kFullscreen, kLoads, kHoverInline, routeVars>>
    /\ UNCHANGED otherThanCard

InitCard ==
    /\ DashInit /\ FxIdle /\ ChartIdle
    /\ SlowIdle /\ ListIdle /\ ScaleIdle /\ LatestRouteIdle
    /\ rRange = "1M"
    /\ rNow = (FirstDay + 11) * 24 + 20
    /\ rOffset = 0
    /\ rResult = NoResult
    /\ qSymbol = NoParam
    /\ qRange = NoParam
    /\ routePc = "none"
    /\ upstream = NoRequest
    /\ response = NoResponse
    /\ CardInit

NextCard ==
    \/ Toggle
    \/ FullscreenHeader
    \/ FullscreenPanel
    \/ CloseFullscreen
    \/ \E nextRange \in RANGES : RangeChange(nextRange)
    \/ RouteGET
    \/ UpstreamOk
    \/ \E message \in UpstreamErrors : UpstreamFail(message)
    \/ \E l \in DOMAIN kLoads : CardRespond(l)
    \/ \E l \in DOMAIN kLoads : CardNetworkFail(l)
    \/ \E l \in DOMAIN kLoads : CardTextDone(l)
    \/ \E l \in DOMAIN kLoads : CardJsonDone(l)
    \/ \E l \in DOMAIN kLoads : CardJsonFail(l)
    \/ \E idx \in 0..2 : MoveInline(idx)
    \/ LeaveInline
    \/ \E idx \in 0..2 : MoveFull(idx)
    \/ LeaveFull

SpecCard == InitCard /\ [][NextCard]_vars

\* C28: at most one loadSeries call of a card is in flight, a call is in
\* flight only while the card is loading, and the series of a loaded card
\* was fetched for the selected range
C28_OneLoadAndLoadedForSelectedRange ==
    /\ Len(kLoads) <= 1
    /\ kLoads # <<>> => kSeries.status = "loading"
    /\ kSeries.status = "loaded" => kSeries.data.range = kRange

\* a range other than the default was chosen in fullscreen and has loaded
C28_Witness ==
    /\ kSeries.status = "loaded"
    /\ kRange = "1Y"
    /\ kSeries.data.range = "1Y"
    /\ kFullscreen /\ ~kExpanded
    /\ kLoads = <<>>

\* C29: the series state never returns to idle once it has left it; a card
\* in error stays in error, with its message, when it is collapsed and
\* expanded; only the Fullscreen buttons take a card out of error
C29_ErrorIsLeftOnlyByFullscreen ==
    [][/\ kSeries.status # "idle" => kSeries'.status # "idle"
       /\ kSeries.status = "error" /\ Toggle => kSeries' = kSeries /\ kLoads' = kLoads
       /\ kSeries.status = "error" /\ kSeries' # kSeries =>
             /\ kFullscreen'
             /\ kSeries'.status = "loading"
             /\ Len(kLoads') = Len(kLoads) + 1
             /\ kExpanded' = kExpanded]_vars

\* a card in error that has been collapsed
C29_Witness ==
    /\ kSeries.status = "error"
    /\ ~kExpanded /\ ~kFullscreen
    /\ kLoads = <<>>

\* C23: a hover that is set holds an index found against the points the
\* card shows now, within their range
C23_HoverIsForCurrentPoints ==
    \A hover \in {kHoverInline, kHoverFull} :
        hover # NoChartHover =>
            /\ kSeries.status = "loaded"
            /\ hover.of = kSeries.data
            /\ hover.idx >= 0 /\ hover.idx < kSeries.data.n

\* a hover over the points of a range chosen after the first load
C23_Witness ==
    /\ kHoverInline # NoChartHover
    /\ kHoverInline.idx = 1
    /\ kSeries.data = [range |-> "1W", n |-> 2]
    /\ kRange = "1W"

-----------------------------------------------------------------------------
(* GET /api/fx/latest, and the page as a whole: the dashboard's first poll
   through the latest route, and one card's loads through the timeseries
   route *)

\* symbolsParam: the codes joined by ","
RECURSIVE JoinCodes(_)
JoinCodes(codes) ==
    IF codes = <<>> THEN <<>>
    ELSE IF Len(codes) = 1 THEN codes[1]
    ELSE codes[1] \o <<44>> \o JoinCodes(Tail(codes))

\* symbolsParam.split(",")
RECURSIVE SplitComma(_)
SplitComma(s) ==
    IF \E i \in 1..Len(s) : s[i] = 44
    THEN LET i == CHOOSE k \in 1..Len(s) : s[k] = 44 /\ \A j \in 1..(k - 1) : s[j] # 44
         IN  <<SubSeq(s, 1, i - 1)>> \o SplitComma(SubSeq(s, i + 1, Len(s)))
    ELSE <<s>>

\* Array.from(new Set(list)): first occurrences, in order
RECURSIVE FromSet(_)
FromSet(list) ==
    IF list = <<>> THEN <<>>
    ELSE LET front == FromSet(SubSeq(list, 1, Len(list) - 1))
             last == list[Len(list)]
         IN  IF \E i \in 1..Len(front) : front[i] = last THEN front ELSE Append(front, last)

\* the codes of DEFAULT_WATCHLIST: USD, EUR, JPY, GBP, AUD
DefaultCodes ==
    <<<<85, 83, 68>>, <<69, 85, 82>>, <<74, 80, 89>>, <<71, 66, 80>>, <<65, 85, 68>>>>

\* the symbols the latest route asks the provider for
LatestSymbols(symbolsParam) ==
    LET parts == SplitComma(symbolsParam)
        cleaned == SelectSeq([i \in 1..Len(parts) |-> UpperCaseUnits(Trim(parts[i]))],
                             LAMBDA p : p # <<>>)
        symbols == IF symbolsParam # <<>> THEN FromSet(cleaned) ELSE DefaultCodes
    IN  SubSeq(symbols, 1, Min(20, Len(symbols)))

\* faulty variant: a catch block that answers without the message
latestCatchHidesMessage(message) ==
    [status |-> 500, error |-> "Internal Server Error", symbols |-> <<>>]

\* the catch block of the latest route
latestCatch(message) == [status |-> 500, error |-> message, symbols |-> <<>>]

\* GET for the request of the dashboard's call f, up to the await of
\* fetchLatestRates
LatestGET(f) ==
    /\ latestPc = "none"
    /\ fetches[f].pc = "fetch"
    /\ ~fetches[f].aborted
    /\ uSymbols' = Param(JoinCodes(fetches[f].symbols))
    /\ LET symbolsParam == GetOr(uSymbols', <<>>)
           symbols == LatestSymbols(symbolsParam)
       IN  IF symbolsParam # <<>> /\ Len(symbols) = 0
           THEN /\ uResponse' = [status |-> 400, error |-> "No valid symbols provided",
                                 symbols |-> <<>>]
                /\ latestPc' = "done"
                /\ UNCHANGED uUpstream
           ELSE /\ uUpstream' = symbols
                /\ latestPc' = "upstream"
                /\ UNCHANGED uResponse
    /\ UNCHANGED otherThanLatestRoute

\* fetchLatestRates resolves: the rates are returned with status 200
LatestUpstreamOk ==
    /\ latestPc = "upstream"
    /\ uResponse' = [status |-> 200, error |-> "", symbols |-> uUpstream]
    /\ latestPc' = "done"
    /\ UNCHANGED <<uSymbols, uUpstream>>
    /\ UNCHANGED otherThanLatestRoute

\* fetchLatestRates throws
LatestUpstreamFail(message) ==
    /\ latestPc = "upstream"
    /\ uResponse' = latestCatch(message)
    /\ latestPc' = "done"
    /\ UNCHANGED <<uSymbols, uUpstream>>
    /\ UNCHANGED otherThanLatestRoute

\* the dashboard's fetch() resolves with the route's response
DashRespond(f) ==
    /\ latestPc = "done"
    /\ Respond(f, uResponse.status)

NextPage ==
    \/ Mount
    \/ \E f \in DOMAIN fetches : LatestGET(f)
    \/ LatestUpstreamOk
    \/ \E message \in UpstreamErrors : LatestUpstreamFail(message)
    \/ \E f \in DOMAIN fetches : DashRespond(f)
    \/ \E f \in DOMAIN fetches : NetworkFail(f)
    \/ \E f \in DOMAIN fetches : JsonDone(f)
    \/ \E f \in DOMAIN fetches : JsonFail(f)
    \/ \E f \in DOMAIN fetches : TextDone(f)
    \/ Toggle
    \/ FullscreenHeader
    \/ FullscreenPanel
    \/ CloseFullscreen
    \/ \E nextRange \in RANGES : RangeChange(nextRange)
    \/ RouteGET
    \/ UpstreamOk
    \/ \E message \in UpstreamErrors : UpstreamFail(message)
    \/ \E l \in DOMAIN kLoads : CardRespond(l)
    \/ \E l \in DOMAIN kLoads : CardNetworkFail(l)
    \/ \E l \in DOMAIN kLoads : CardTextDone(l)
    \/ \E l \in DOMAIN kLoads : CardJsonDone(l)
    \/ \E l \in DOMAIN kLoads : CardJsonFail(l)

SpecPage == InitCard /\ [][NextPage]_vars

\* C24: no failure escapes. A loadLatest call that failed has left an error
\* message and ended the loading state; a loadSeries call that fails leaves
\* the card in its error state with a message, and a card whose last
\* request was answered 500 and has returned is in error; each route
\* answers a failure of its provider call with status 500 and the failure's
\* message
C24_FailuresEndInErrorStates ==
    /\ [](/\ \A f \in DOMAIN fetches :
                fetches[f].pc = "failed" => errorMessage # Null /\ ~isLoading
          /\ routePc = "done" /\ response.status # 200 /\ kLoads = <<>> =>
                kSeries.status = "error" /\ kSeries.message # <<>>
          /\ latestPc = "done" /\ uResponse.status # 200 /\ Live = {} /\ fetches # <<>> =>
                errorMessage # Null)
    /\ [][/\ \A l \in DOMAIN kLoads :
                CardNetworkFail(l) \/ CardTextDone(l) \/ CardJsonFail(l) =>
                    kSeries'.status = "error" /\ kSeries'.message # <<>>
          /\ \A message \in UpstreamErrors :
                /\ UpstreamFail(message) =>
                      response'.status = 500 /\ response'.error = message
                /\ LatestUpstreamFail(message) =>
                      uResponse'.status = 500 /\ uResponse'.error = message]_vars

\* the provider failed both routes: the dashboard holds an error message
\* and the card is in error
C24_Witness ==
    /\ fetches # <<>> /\ fetches[1].pc = "failed"
    /\ errorMessage # Null
    /\ uResponse.status = 500
    /\ response.status = 500
    /\ kSeries.status = "error"
    /\ kLoads = <<>>

====
